---- MODULE Spec2Model ----
(***************************************************************************)
(* Task orchestration engine of webpcompressor: the in-memory task store,  *)
(* the task worker pool and its workers, the cancel endpoint, the progress *)
(* reporter (publish/subscribe) and the per-task frame worker pool.        *)
(*                                                                         *)
(* Go pointers are modelled explicitly: the store maps a task id to a      *)
(* reference, either to the TaskInfo allocated by CreateTask (which the    *)
(* worker keeps mutating in place) or to the copy a cancel request made.   *)
(***************************************************************************)
EXTENDS Integers, Sequences, FiniteSets, TLC

\* ---------------------------------------------------------------- bounds
MaxWorkers == 1        \* W, the pool's worker count (Web.MaxConcurrentTasks)
MaxTasks == 1          \* task submissions in Spec
MaxCancels == 2        \* cancel requests in Spec
MaxTicks == 1          \* ticks of the progress ticker per task in Spec
PoolTasks == 3         \* task submissions in SpecPool (more than 2 * W)
ProgressTasks == 1     \* task submissions in SpecProgress
ProgressTicks == 29    \* ticks per task in SpecProgress (the ticker passes
                       \* 90 with its 25th tick and stops at 95, its 29th)

BrokerTasks == 1       \* task ids with subscriptions in SpecBroker
MaxConns == 2          \* websocket connections in SpecBroker
MaxEvents == 11        \* ReportProgress calls in SpecBroker (more than SubCap)

MaxFrames == 3         \* frames of the animation in SpecFrames
CancelFrames == 4      \* frames of the animation in SpecFramesCancel (more
                       \* than 3 * M for M = 1)
MaxConc == 2           \* largest MaxConcurrency (task's or application's)
MaxStarts == 2         \* calls of WorkerPool.Start in SpecStarts
StartsTasks == 2       \* task submissions in SpecStarts
DeleteTasks == 2       \* task submissions in SpecDelete
CreateRequests == 2    \* createTask requests in SpecCreate
ListedTasks == 3       \* task submissions in SpecList
MaxLists == 2          \* ListTasks calls in SpecList
MaxWraps == 3          \* Wrap calls in SpecErrors
ErrTasks == 3          \* tasks whose validateInput runs in SpecErrCtx
UnitTicks == 2         \* ticks of the progress ticker in SpecUnits
MaxClockTicks == 4     \* advances of the clock (12 hours each) in SpecCleanup

\* startCleanupRoutine: olderThan := 24 * time.Hour
Retention == 24

\* capacity of a subscription channel: make(chan domain.TaskInfo, 10)
SubCap == 10

Max(a, b) == IF a > b THEN a ELSE b

Tasks == 1..Max(Max(Max(MaxTasks, StartsTasks), Max(PoolTasks, ProgressTasks)),
                Max(Max(DeleteTasks, ListedTasks), ErrTasks))
Workers == 1..(MaxStarts * MaxWorkers)   \* every worker a Start call can launch
Slots == 1..MaxWorkers                   \* indices of wp.workers
Cancels == 1..MaxCancels
Conns == 1..MaxConns
Frames == 1..Max(MaxFrames, CancelFrames)
FWorkers == 1..MaxConc

None == <<"none", 0>>
TaskRef(t) == <<"task", t>>
CopyRef(c) == <<"copy", c>>

VARIABLES
    lim,          \* limits of the scenario: [tasks, cancels, ticks] and the
                  \* request bodies its createTask requests are drawn from
    \* --- task store (MemoryTaskManager) and the heap of TaskInfo objects
    tasks,        \* m.tasks: task id -> reference held by the map
    taskObj,      \* the TaskInfo allocated by CreateTask for each id
    copyObj,      \* the taskCopy allocated by GetTask for each cancel request
    \* --- createTask handler
    createPc,     \* per task id: "new" | "submit" | "done"
    \* --- task worker pool
    started,      \* WorkerPool.Start has launched the workers
    stopped,      \* wp.stopped
    stopPc,       \* Stop: "idle" | "wait" (holding wp.mu in wg.Wait) | "done" |
                  \* "panic" (nil pointer dereference in worker.Stop)
    taskQueue,    \* wp.taskQueue, capacity 2 * maxWorkers
    workers,      \* wp.workers: slot -> the worker Start stored there (0: nil)
    \* --- task workers
    wpc,          \* position of each worker in Worker.Start / processTask
    wjob,         \* the task the worker is processing (0: none)
    wcb,          \* progress value of the progressCallback being executed
    werr,         \* CompressAnimation returned an error
    \* --- progress ticker goroutine of executeCompressionWithProgress
    tickPc,       \* "off" | "select" | "cbProgress" | "cbUpdate" | "cbReport" | "done"
    tickCur,      \* currentProgress
    tickN,        \* ticks taken
    ctxDone,      \* compressionCtx cancelled
    \* --- cancelTask handler
    cancelPc,     \* "idle" | "update" | "done"
    cancelId,     \* the task id of the request
    cancelSaw,    \* task.Status read by the handler
    cancelResp,   \* HTTP status of the response (0: none yet)
    cancelAt,     \* history: where the task was when the handler stored its
                  \* cancelled copy: "" (not stored) | "queue" | "worker"
    \* --- deleteTask handler (one request)
    delPc,        \* "idle" | "delete" | "done"
    delId,        \* the task id of the request
    delSaw,       \* task.Status read by the handler
    delResp,      \* HTTP status of the response (0: none yet)
    \* --- WebPService.CompressAnimation of the task being processed
    pipePc,       \* "off" | "validate" | "parse" | "extract" | "compress" |
                  \* "seq" | "par" | "assemble" | "ret"
    pipeIdx,      \* index of the range loop over the frames
    pipeErr,      \* the error CompressAnimation returns ("": nil)
    parallel,     \* config.EnableParallel
    invoked,      \* history: the phases that have been invoked
    \* --- history
    published,    \* per task: the last progress value passed to ReportProgress
    unitEvents,   \* ReportProgress calls made while the CompressFrames call of
                  \* the running CompressAnimation was in progress
    \* --- clock, files, logs and the requests of the HTTP handlers
    now,          \* time.Now(), in hours
    createdAt,    \* task.CreatedAt of each record
    updErr,       \* what the last UpdateTask call returned ("": no call yet)
    rejectLog,    \* task ids SubmitTask logged as refused by a stopped pool
    outFile,      \* per task: task.OutputFile exists in the output directory
    upFile,       \* per task: task.InputFile exists in the upload directory
    listLog,      \* the ListTasks calls made so far: [limit, offset, ids, at]
    createReq,    \* per createTask request: its body [quality, input]
    createResp,   \* per createTask request: HTTP status (0: none yet)
    tempDir,      \* the temporary directory of the CompressAnimation call:
                  \* "none" | "created" | "removed" | "left"
    cleanupCalls, \* CleanupTempDir calls made by the CompressAnimation call
    \* --- progress reporter (ProgressReporter) and its websocket consumers
    subscribers,  \* p.subscribers: task id -> sequence of channels
    chans,        \* per connection, the channel Subscribe made: [buf, closed]
    connPc,       \* handleProgressWebSocket: "new" | "loop" | "gone"
    connId,       \* the task id of the connection
    pubPc,        \* ReportProgress: "idle" | "send" | "panic"
    pubId,        \* its taskID
    pubSnap,      \* the channels slice it read under the lock
    pubIdx,       \* position of its range loop in that slice
    pubN,         \* number of updates published so far
    cleaned,      \* CleanupSubscribers has run
    \* --- frame worker pool (domain.WorkerPool) of one CompressFramesParallel
    fpN,          \* len(frames)
    fpM,          \* maxWorkers
    fpPc,         \* CompressFramesParallel: "start" | "submit" | "close" | "wait" | "done"
    fpNext,       \* index of the next frame to submit
    jobs,         \* wp.jobs, capacity 2 * maxWorkers
    jobsClosed,   \* close(wp.jobs) has run
    results,      \* wp.results, capacity 2 * maxWorkers
    fwPc,         \* worker: "off" | "recv" | "select" | "proc" | "send" | "exit"
    fwFrame,      \* the frame the worker holds
    fwRes,        \* the value the worker is about to send on results
    fpCtxDone,    \* ctx.Done() is closed
    fpRuns,       \* per frame: number of processor calls that returned
    fpErrors,     \* the slice Wait returned
    framePath,    \* frame.Path of each element of the frame list, in list order
    fpLog,        \* history: [out, first], the outcome of each frame ("none",
                  \* "nil", "err", or "ctx" when a worker stopped on it) and
                  \* the frame whose processor returned first (0: none yet)
    \* --- package errors: the heap of AppError objects and its users
    errHeap,      \* the AppError objects allocated so far; a positive error
                  \* value is a pointer into it
    wrapLog,      \* history: the Wrap calls made, [err, type, code, ret]
    chain,        \* history: the latest run of Wrap calls, each on the result
                  \* of the one before: [orig, k, top]
    valPc,        \* validateInput of each task: "idle" | "ok" | "check" | "make" |
                  \* "write" | "done"
    valErr,       \* the error validateInput returned to each task
    mapFault      \* the runtime stopped the process on concurrent map writes

errVars == <<errHeap, wrapLog, chain, valPc, valErr, mapFault>>
storeVars == <<tasks, taskObj, copyObj>>
poolVars == <<started, stopped, stopPc, taskQueue>>
workerVars == <<wpc, wjob, wcb, werr>>
tickVars == <<tickPc, tickCur, tickN, ctxDone>>
cancelVars == <<cancelPc, cancelId, cancelSaw, cancelResp, cancelAt>>
delVars == <<delPc, delId, delSaw, delResp>>
pipeVars == <<pipePc, pipeIdx, pipeErr, parallel, invoked>>
sysVars == <<now, createdAt, updErr, rejectLog, outFile, upFile, listLog,
             createReq, createResp, tempDir, cleanupCalls>>
engineVars == <<lim, storeVars, createPc, poolVars, workers, workerVars,
                tickVars, cancelVars, delVars, pipeVars, published, unitEvents, sysVars>>
brokerVars == <<subscribers, chans, connPc, connId, pubPc, pubId, pubSnap,
                pubIdx, pubN, cleaned>>
frameVars == <<fpN, fpM, fpPc, fpNext, jobs, jobsClosed, results, fwPc,
               fwFrame, fwRes, fpCtxDone, fpRuns, fpErrors, framePath, fpLog>>
vars == <<engineVars, brokerVars, frameVars, errVars>>

\* ------------------------------------------------------------ TaskInfo
NewTaskInfo == [status |-> "pending", progress |-> 0, result |-> FALSE, error |-> ""]

Terminal == {"completed", "failed", "cancelled"}

TaskStart(r) == [r EXCEPT !.status = "processing"]

TaskUpdateProgress(r, p) == [r EXCEPT !.progress = p]

TaskComplete(r) == [r EXCEPT !.status = "completed", !.progress = 100, !.result = TRUE]

TaskFail(r, reason) == [r EXCEPT !.status = "failed", !.progress = 100, !.error = reason]

TaskCancel(r) == [r EXCEPT !.status = "cancelled", !.progress = 100]

\* ---------------------------------------------------------- task store
Deref(ref) == IF ref[1] = "task" THEN taskObj[ref[2]] ELSE copyObj[ref[2]]

Exists(t) == tasks[t] # None

\* the record a GetTask(t) would copy
StoreRec(t) == Deref(tasks[t])

\* an UpdateTask that stores the caller's pointer whether or not the id is known
UpdateTaskUpsert(m, t, ref) == [m EXCEPT ![t] = ref]

\* UpdateTask stores the caller's pointer, unless the id is unknown
UpdateTask(m, t, ref) == IF m[t] # None THEN [m EXCEPT ![t] = ref] ELSE m

\* what UpdateTask returns: nil, or the error "任务不存在" (not found)
UpdateTaskErr(m, t) == IF m[t] # None THEN "nil" ELSE "not_found"

\* ------------------------------------------------------ task worker pool
QueueCap == 2 * MaxWorkers

\* a buffered channel that accepts one job more than make() asked for
CanEnqueueOneMore(q) == Len(q) <= QueueCap

\* the select of SubmitTask: enqueue, or take the default branch when full
CanEnqueue(q) == Len(q) < QueueCap

\* ReportProgress as seen by the publisher: the progress value it publishes
ReportProgress(t, p) ==
    /\ published' = [published EXCEPT ![t] = p]
    /\ unitEvents' = IF pipePc \in {"seq", "par"} THEN unitEvents + 1 ELSE unitEvents

\* ------------------------------------------------------------ package errors
\* error values: nil, an error that is not an *AppError (fmt.Errorf), or a
\* pointer to an AppError (its index in errHeap)
NilErr == 0
PlainErr == -1

\* the error types and codes the callers of New and Wrap pass
ErrorTypes == {"IO", "EXECUTION"}
Codes == {"FILE_READ", "EXEC_ERROR"}

\* New(errorType, code, message)
New(ty, code) == [type |-> ty, code |-> code, cause |-> NilErr, context |-> {}]

\* the package-level variable ErrFileNotFound, allocated once at start-up
ErrFileNotFound == 1
Predefined == <<New("IO", "FILE_NOT_FOUND")>>

\* a Wrap that does not keep the error it was given
WrapDropsCause(err, ty, code) ==
    [type |-> ty, code |-> code, cause |-> NilErr, context |-> {}]

\* Wrap(err, errorType, code, message): the AppError it allocates
Wrap(err, ty, code) ==
    [type |-> ty, code |-> code, cause |-> err, context |-> {}]

\* errors.Unwrap(err): AppError.Unwrap for an *AppError, nil for the rest
Unwrap(h, err) == IF err > 0 THEN h[err].cause ELSE NilErr

\* k Unwrap steps from err
RECURSIVE UnwrapN(_, _, _)
UnwrapN(h, err, k) == IF k = 0 THEN err ELSE UnwrapN(h, Unwrap(h, err), k - 1)

IsType(h, err, ty) == IF err > 0 THEN h[err].type = ty ELSE FALSE

IsCode(h, err, code) == IF err > 0 THEN h[err].code = code ELSE FALSE

GetType(h, err) == IF err > 0 THEN h[err].type ELSE "INTERNAL"

GetCode(h, err) == IF err > 0 THEN h[err].code ELSE "UNKNOWN"

\* e.Context[key] = value on a map held as a set of <<key, value>> pairs
MapAssign(ctx, key, value) == {q \in ctx : q[1] # key} \cup {<<key, value>>}

\* ------------------------------------------------------------ frame paths
\* a frame path: its text before the index, as a sequence of pieces, and the
\* frame index that follows it (then ".webp")
NoPath == [text |-> <<>>, index |-> 0]

\* ExtractFrames: filepath.Join(outputDir, fmt.Sprintf("frame_%d.webp", frame.Index))
ExtractedPath(f) == [text |-> <<"tmp/", "frame_">>, index |-> f]

\* strings.Replace(s, old, new, 1) on the pieces of a text
RECURSIVE ReplaceFirst(_, _, _)
ReplaceFirst(txt, old, new) ==
    IF txt = <<>> THEN <<>>
    ELSE IF Head(txt) = old THEN <<new>> \o Tail(txt)
    ELSE <<Head(txt)>> \o ReplaceFirst(Tail(txt), old, new)

\* compressFrame: strings.Replace(frame.Path, "frame_", "frame_compressed_", 1)
CompressedPath(p) == [p EXCEPT !.text = ReplaceFirst(@, "frame_", "frame_compressed_")]

\* no frame has an outcome yet
NoLog == [out |-> [f \in Frames |-> "none"], first |-> 0]

\* the log after frame f ended with outcome r (a processor result unless "ctx")
Logged(log, f, r) ==
    [out |-> [log.out EXCEPT ![f] = r],
     first |-> IF log.first = 0 /\ r # "ctx" THEN f ELSE log.first]

\* no request body
NoRequest == [quality |-> [present |-> FALSE, value |-> 0], input |-> "none"]

\* a createTask body with a quality in range and an uploaded input file
OkRequest == [quality |-> [present |-> TRUE, value |-> 80], input |-> "present"]

\* createTask bodies: quality missing, or present with a value below, at the
\* ends of, inside and above 0..100; an input_file that names an uploaded
\* file ("present"), no file ("absent"), a path that runs through an uploaded
\* file as if it were a directory ("notdir"), or is the empty string ("empty")
Requests ==
    {[quality |-> q, input |-> i] :
        q \in {[present |-> FALSE, value |-> 0]}
                \cup {[present |-> TRUE, value |-> v] : v \in {-1, 0, 80, 100, 101}},
        i \in {"present", "absent", "notdir", "empty"}}

\* ShouldBindJSON: the value of req.Quality (0 when the body has none)
BoundQuality(q) == IF q.present THEN q.value ELSE 0

\* ShouldBindJSON succeeds: input_file is binding:"required" (not empty) and
\* quality is binding:"required,min=0,max=100" (required rejects the zero
\* value of an int)
BindOk(r) ==
    /\ r.input # "empty"
    /\ BoundQuality(r.quality) # 0
    /\ BoundQuality(r.quality) >= 0
    /\ BoundQuality(r.quality) <= 100

\* os.Stat(filepath.Join(UploadDir, input)): nil, or the errno of the failed
\* stat; the empty name joins to the upload directory itself
Stat(input) ==
    CASE input \in {"present", "empty"} -> "nil"
      [] input = "absent" -> "ENOENT"
      [] OTHER -> "ENOTDIR"

\* os.IsNotExist(err)
IsNotExist(err) == err = "ENOENT"

\* the state of the frame pool before NewWorkerPool
InitPoolOff ==
    /\ fpNext = 1
    /\ jobs = <<>>
    /\ jobsClosed = FALSE
    /\ results = <<>>
    /\ fwPc = [w \in FWorkers |-> "off"]
    /\ fwFrame = [w \in FWorkers |-> 0]
    /\ fwRes = [w \in FWorkers |-> "nil"]
    /\ fpCtxDone = FALSE
    /\ fpRuns = [f \in Frames |-> 0]
    /\ fpErrors = <<>>
    /\ fpLog = NoLog

\* a frame pool about to be started on a list of extracted frames
InitFrames ==
    /\ fpPc = "start"
    /\ framePath = [f \in Frames |-> ExtractedPath(f)]
    /\ InitPoolOff

\* store, task pool, handlers and reporter after construction
InitCore ==
    /\ tasks = [t \in Tasks |-> None]
    /\ taskObj = [t \in Tasks |-> NewTaskInfo]
    /\ copyObj = [c \in Cancels |-> NewTaskInfo]
    /\ createPc = [t \in Tasks |-> "new"]
    /\ started = FALSE
    /\ stopped = FALSE
    /\ stopPc = "idle"
    /\ taskQueue = <<>>
    /\ workers = [i \in Slots |-> 0]
    /\ wpc = [w \in Workers |-> "off"]
    /\ wjob = [w \in Workers |-> 0]
    /\ wcb = [w \in Workers |-> 0]
    /\ werr = [w \in Workers |-> FALSE]
    /\ tickPc = [t \in Tasks |-> "off"]
    /\ tickCur = [t \in Tasks |-> 40]
    /\ tickN = [t \in Tasks |-> 0]
    /\ ctxDone = [t \in Tasks |-> FALSE]
    /\ cancelPc = [c \in Cancels |-> "idle"]
    /\ cancelId = [c \in Cancels |-> 0]
    /\ cancelSaw = [c \in Cancels |-> ""]
    /\ cancelResp = [c \in Cancels |-> 0]
    /\ cancelAt = [c \in Cancels |-> ""]
    /\ delPc = "idle"
    /\ delId = 0
    /\ delSaw = ""
    /\ delResp = 0
    /\ pipePc = "off"
    /\ pipeIdx = 0
    /\ pipeErr = ""
    /\ parallel = FALSE
    /\ invoked = {}
    /\ published = [t \in Tasks |-> 0]
    /\ unitEvents = 0
    /\ now = 0
    /\ createdAt = [t \in Tasks |-> 0]
    /\ updErr = ""
    /\ rejectLog = {}
    /\ outFile = [t \in Tasks |-> FALSE]
    /\ upFile = [t \in Tasks |-> FALSE]
    /\ listLog = <<>>
    /\ createReq = [t \in Tasks |-> NoRequest]
    /\ createResp = [t \in Tasks |-> 0]
    /\ tempDir = "none"
    /\ cleanupCalls = 0
    /\ subscribers = [t \in Tasks |-> <<>>]
    /\ chans = [c \in Conns |-> [buf |-> <<>>, closed |-> FALSE]]
    /\ connPc = [c \in Conns |-> "new"]
    /\ connId = [c \in Conns |-> 0]
    /\ pubPc = "idle"
    /\ pubId = 0
    /\ pubSnap = <<>>
    /\ pubIdx = 0
    /\ pubN = 0
    /\ cleaned = FALSE
    /\ errHeap = Predefined
    /\ wrapLog = <<>>
    /\ chain = [orig |-> NilErr, k |-> 0, top |-> NilErr]
    /\ valPc = [t \in Tasks |-> "idle"]
    /\ valErr = [t \in Tasks |-> NilErr]
    /\ mapFault = FALSE

InitRest == InitCore /\ InitFrames

Init ==
    /\ lim = [tasks |-> MaxTasks, cancels |-> MaxCancels, ticks |-> MaxTicks,
             reqs |-> {OkRequest}]
    /\ fpN = 1
    /\ fpM = 1
    /\ InitRest

\* ------------------------------------------------------------- actions
\* WorkerPool.Start (called by Server.Start before the HTTP server listens)
PoolStart ==
    /\ ~started
    /\ stopPc = "idle"
    /\ started' = TRUE
    /\ IF stopped
       THEN UNCHANGED <<wpc, workers>>
       ELSE /\ wpc' = [w \in Workers |-> IF w \in Slots THEN "idle" ELSE wpc[w]]
            /\ workers' = [i \in Slots |-> i]
    /\ UNCHANGED <<sysVars, brokerVars, frameVars, delVars, pipeVars, lim, errVars, storeVars, createPc, stopped, stopPc, taskQueue,
                   wjob, wcb, werr, tickVars, cancelVars, published, unitEvents>>

\* WorkerPool.Start called on a pool that is already running: it launches
\* maxWorkers further workers and overwrites wp.workers with them
PoolRestart ==
    /\ started
    /\ stopPc = "idle"
    /\ ~stopped
    /\ LET base == Cardinality({w \in Workers : wpc[w] # "off"})
       IN /\ base + MaxWorkers <= MaxStarts * MaxWorkers
          /\ wpc' = [w \in Workers |->
                       IF w > base /\ w <= base + MaxWorkers THEN "idle" ELSE wpc[w]]
          /\ workers' = [i \in Slots |-> base + i]
    /\ UNCHANGED <<sysVars, brokerVars, frameVars, delVars, pipeVars, lim, errVars, storeVars, createPc,
                   poolVars, wjob, wcb, werr, tickVars, cancelVars, published, unitEvents>>

\* createTask up to its SubmitTask call: ShouldBindJSON, os.Stat of the
\* input, then MemoryTaskManager.CreateTask
CreateTask(t) ==
    /\ started
    /\ t <= lim.tasks
    /\ createPc[t] = "new"
    /\ \A u \in Tasks : u < t => createPc[u] # "new"
    /\ \E r \in lim.reqs :
         /\ createReq' = [createReq EXCEPT ![t] = r]
         /\ IF ~BindOk(r) \/ IsNotExist(Stat(r.input))
            THEN /\ createResp' = [createResp EXCEPT ![t] = 400]
                 /\ createPc' = [createPc EXCEPT ![t] = "rejected"]
                 /\ UNCHANGED <<taskObj, tasks, createdAt, upFile>>
            ELSE /\ taskObj' = [taskObj EXCEPT ![t] = NewTaskInfo]
                 /\ tasks' = [tasks EXCEPT ![t] = TaskRef(t)]
                 /\ createPc' = [createPc EXCEPT ![t] = "submit"]
                 /\ createdAt' = [createdAt EXCEPT ![t] = now]
                 /\ upFile' = [upFile EXCEPT ![t] = r.input = "present"]
                 /\ UNCHANGED createResp
    /\ UNCHANGED <<now, updErr, rejectLog, outFile, listLog, tempDir, cleanupCalls>>
    /\ UNCHANGED <<brokerVars, frameVars, delVars, pipeVars, workers, lim, errVars, copyObj, poolVars, workerVars, tickVars, cancelVars,
                   published, unitEvents>>

\* a SubmitTask that does not look at wp.stopped
SubmitTaskUnchecked(t) ==
    /\ createPc[t] = "submit"
    /\ stopPc # "wait"
    /\ createPc' = [createPc EXCEPT ![t] = "done"]
    /\ IF CanEnqueue(taskQueue)
       THEN /\ taskQueue' = Append(taskQueue, t)
            /\ UNCHANGED <<taskObj, tasks, updErr, rejectLog>>
       ELSE /\ taskObj' = [taskObj EXCEPT ![t] = TaskFail(@, "queue_full")]
            /\ tasks' = UpdateTask(tasks, t, TaskRef(t))
            /\ updErr' = UpdateTaskErr(tasks, t)
            /\ UNCHANGED <<taskQueue, rejectLog>>
    /\ createResp' = [createResp EXCEPT ![t] = 201]
    /\ UNCHANGED <<now, createdAt, outFile, upFile, listLog, createReq, tempDir,
                   cleanupCalls>>
    /\ UNCHANGED <<brokerVars, frameVars, delVars, pipeVars, workers, lim, errVars, copyObj,
                   started, stopped, stopPc, workerVars, tickVars, cancelVars,
                   published, unitEvents>>

\* createTask, second half: WorkerPool.SubmitTask (needs wp.mu.RLock), then
\* the response 201
SubmitTask(t) ==
    /\ createPc[t] = "submit"
    /\ stopPc # "wait"
    /\ createPc' = [createPc EXCEPT ![t] = "done"]
    /\ IF stopped
       THEN /\ rejectLog' = rejectLog \cup {t}
            /\ UNCHANGED <<taskQueue, taskObj, tasks, updErr>>
       ELSE IF CanEnqueue(taskQueue)
       THEN /\ taskQueue' = Append(taskQueue, t)
            /\ UNCHANGED <<taskObj, tasks, updErr, rejectLog>>
       ELSE /\ taskObj' = [taskObj EXCEPT ![t] = TaskFail(@, "queue_full")]
            /\ tasks' = UpdateTask(tasks, t, TaskRef(t))
            /\ updErr' = UpdateTaskErr(tasks, t)
            /\ UNCHANGED <<taskQueue, rejectLog>>
    /\ createResp' = [createResp EXCEPT ![t] = 201]
    /\ UNCHANGED <<now, createdAt, outFile, upFile, listLog, createReq, tempDir,
                   cleanupCalls>>
    /\ UNCHANGED <<brokerVars, frameVars, delVars, pipeVars, workers, lim, errVars, copyObj, started, stopped, stopPc, workerVars,
                   tickVars, cancelVars, published, unitEvents>>

\* WorkerPool.Stop up to wg.Wait: sets stopped and closes the quit channel of
\* every element of wp.workers; worker.Stop() on an element that is still nil
\* (no Start call has filled the slice) dereferences a nil *Worker
StopBegin ==
    /\ stopPc = "idle"
    /\ stopped' = TRUE
    /\ stopPc' = IF \E i \in Slots : workers[i] = 0 THEN "panic" ELSE "wait"
    /\ UNCHANGED <<sysVars, brokerVars, frameVars, delVars, pipeVars, workers, lim, errVars, storeVars, createPc, started, taskQueue, workerVars,
                   tickVars, cancelVars, published, unitEvents>>

\* WorkerPool.Stop after wg.Wait returned: close(taskQueue), unlock
StopEnd ==
    /\ stopPc = "wait"
    /\ \A w \in Workers : wpc[w] \in {"off", "exit"}
    /\ stopPc' = "done"
    /\ UNCHANGED <<sysVars, brokerVars, frameVars, delVars, pipeVars, workers, lim, errVars, storeVars, createPc, started, stopped, taskQueue,
                   workerVars, tickVars, cancelVars, published, unitEvents>>

\* w.quit is closed: Stop has run and found w in wp.workers
QuitClosed(w) == stopped /\ \E i \in Slots : workers[i] = w

\* Worker.Start, select case job := <-w.taskQueue
WorkerDequeue(w) ==
    /\ wpc[w] = "idle"
    /\ taskQueue # <<>>
    /\ wjob' = [wjob EXCEPT ![w] = Head(taskQueue)]
    /\ taskQueue' = Tail(taskQueue)
    /\ wpc' = [wpc EXCEPT ![w] = "start"]
    /\ UNCHANGED <<sysVars, brokerVars, frameVars, delVars, pipeVars, workers, lim, errVars, storeVars, createPc, started, stopped, stopPc, wcb,
                   werr, tickVars, cancelVars, published, unitEvents>>

\* a worker that returns as soon as w.quit is closed, wherever it is
WorkerQuitAnywhere(w) ==
    /\ wpc[w] \notin {"off", "exit"}
    /\ QuitClosed(w)
    /\ wpc' = [wpc EXCEPT ![w] = "exit"]
    /\ UNCHANGED <<sysVars, brokerVars, frameVars, delVars, pipeVars, workers, lim, errVars,
                   storeVars, createPc, poolVars, wjob, wcb, werr, tickVars,
                   cancelVars, published, unitEvents>>

\* Worker.Start, select case <-w.quit
WorkerQuit(w) ==
    /\ wpc[w] = "idle"
    /\ QuitClosed(w)
    /\ wpc' = [wpc EXCEPT ![w] = "exit"]
    /\ UNCHANGED <<sysVars, brokerVars, frameVars, delVars, pipeVars, workers, lim, errVars, storeVars, createPc, poolVars, wjob, wcb, werr,
                   tickVars, cancelVars, published, unitEvents>>

\* the progress value that follows v among the milestones of
\* executeCompressionWithProgress, and the position after the last one
AfterCallback(v) ==
    CASE v = 10 -> [pc |-> "cbProgress", cb |-> 20]
      [] v = 20 -> [pc |-> "cbProgress", cb |-> 40]
      [] v = 40 -> [pc |-> "spawn", cb |-> 40]
      [] v = 90 -> [pc |-> "cbProgress", cb |-> 100]
      [] OTHER -> [pc |-> "complete", cb |-> 100]

\* processTask: task.Start()
WorkerStart(w) ==
    /\ wpc[w] = "start"
    /\ taskObj' = [taskObj EXCEPT ![wjob[w]] = TaskStart(@)]
    /\ wpc' = [wpc EXCEPT ![w] = "startUpdate"]
    /\ UNCHANGED <<sysVars, brokerVars, frameVars, delVars, pipeVars, workers, lim, errVars, tasks, copyObj, createPc, poolVars, wjob, wcb, werr,
                   tickVars, cancelVars, published, unitEvents>>

\* processTask: taskManager.UpdateTask(task) after Start
WorkerStartUpdate(w) ==
    /\ wpc[w] = "startUpdate"
    /\ tasks' = UpdateTask(tasks, wjob[w], TaskRef(wjob[w]))
    /\ wpc' = [wpc EXCEPT ![w] = "startReport"]
    /\ updErr' = UpdateTaskErr(tasks, wjob[w])
    /\ UNCHANGED <<now, createdAt, rejectLog, outFile, upFile, listLog, createReq,
                   createResp, tempDir, cleanupCalls>>
    /\ UNCHANGED <<brokerVars, frameVars, delVars, pipeVars, workers, lim, errVars, taskObj, copyObj, createPc, poolVars, wjob, wcb, werr,
                   tickVars, cancelVars, published, unitEvents>>

\* processTask: ReportProgress(task.ID, 0.0, ...), then the first callback
WorkerStartReport(w) ==
    /\ wpc[w] = "startReport"
    /\ ReportProgress(wjob[w], 0)
    /\ wpc' = [wpc EXCEPT ![w] = "cbProgress"]
    /\ wcb' = [wcb EXCEPT ![w] = 10]
    /\ UNCHANGED <<sysVars, brokerVars, frameVars, delVars, pipeVars, workers, lim, errVars, storeVars, createPc, poolVars, wjob, werr, tickVars,
                   cancelVars>>

\* progressCallback: task.UpdateProgress(progress, message)
WorkerCbProgress(w) ==
    /\ wpc[w] = "cbProgress"
    /\ taskObj' = [taskObj EXCEPT ![wjob[w]] = TaskUpdateProgress(@, wcb[w])]
    /\ wpc' = [wpc EXCEPT ![w] = "cbUpdate"]
    /\ UNCHANGED <<sysVars, brokerVars, frameVars, delVars, pipeVars, workers, lim, errVars, tasks, copyObj, createPc, poolVars, wjob, wcb, werr,
                   tickVars, cancelVars, published, unitEvents>>

\* progressCallback: taskManager.UpdateTask(task)
WorkerCbUpdate(w) ==
    /\ wpc[w] = "cbUpdate"
    /\ tasks' = UpdateTask(tasks, wjob[w], TaskRef(wjob[w]))
    /\ wpc' = [wpc EXCEPT ![w] = "cbReport"]
    /\ updErr' = UpdateTaskErr(tasks, wjob[w])
    /\ UNCHANGED <<now, createdAt, rejectLog, outFile, upFile, listLog, createReq,
                   createResp, tempDir, cleanupCalls>>
    /\ UNCHANGED <<brokerVars, frameVars, delVars, pipeVars, workers, lim, errVars, taskObj, copyObj, createPc, poolVars, wjob, wcb, werr,
                   tickVars, cancelVars, published, unitEvents>>

\* progressCallback: progressReporter.ReportProgress, then back to the caller
WorkerCbReport(w) ==
    /\ wpc[w] = "cbReport"
    /\ ReportProgress(wjob[w], wcb[w])
    /\ wpc' = [wpc EXCEPT ![w] = AfterCallback(wcb[w]).pc]
    /\ wcb' = [wcb EXCEPT ![w] = AfterCallback(wcb[w]).cb]
    /\ UNCHANGED <<sysVars, brokerVars, frameVars, delVars, pipeVars, workers, lim, errVars, storeVars, createPc, poolVars, wjob, werr, tickVars,
                   cancelVars>>

\* executeCompressionWithProgress: go func() { ... } with currentProgress 40
WorkerSpawn(w) ==
    /\ wpc[w] = "spawn"
    /\ tickPc' = [tickPc EXCEPT ![wjob[w]] = "select"]
    /\ tickCur' = [tickCur EXCEPT ![wjob[w]] = 40]
    /\ wpc' = [wpc EXCEPT ![w] = "compress"]
    /\ UNCHANGED <<sysVars, brokerVars, frameVars, delVars, pipeVars, workers, lim, errVars, storeVars, createPc, poolVars, wjob, wcb, werr, tickN,
                   ctxDone, cancelVars, published, unitEvents>>

\* executeCompressionWithProgress: CompressAnimation returns a result or an error
WorkerCompress(w) ==
    /\ wpc[w] = "compress"
    /\ \E e \in BOOLEAN :
         /\ werr' = [werr EXCEPT ![w] = e]
         /\ outFile' = IF e THEN outFile ELSE [outFile EXCEPT ![wjob[w]] = TRUE]
    /\ wpc' = [wpc EXCEPT ![w] = "cancelCtx"]
    /\ UNCHANGED <<now, createdAt, updErr, rejectLog, upFile, listLog, createReq,
                   createResp, tempDir, cleanupCalls>>
    /\ UNCHANGED <<brokerVars, frameVars, delVars, pipeVars, workers, lim, errVars, storeVars, createPc, poolVars, wjob, wcb, tickVars,
                   cancelVars, published, unitEvents>>

\* executeCompressionWithProgress: cancel()
WorkerCancelCtx(w) ==
    /\ wpc[w] = "cancelCtx"
    /\ ctxDone' = [ctxDone EXCEPT ![wjob[w]] = TRUE]
    /\ wpc' = [wpc EXCEPT ![w] = "waitDone"]
    /\ UNCHANGED <<sysVars, brokerVars, frameVars, delVars, pipeVars, workers, lim, errVars, storeVars, createPc, poolVars, wjob, wcb, werr, tickPc,
                   tickCur, tickN, cancelVars, published, unitEvents>>

\* executeCompressionWithProgress: select { <-progressDone ; <-time.After(100ms) }
\* then return err, or go on with progressCallback(90.0, ...)
WorkerWaitDone(w) ==
    /\ wpc[w] = "waitDone"
    /\ wpc' = [wpc EXCEPT ![w] = IF werr[w] THEN "fail" ELSE "cbProgress"]
    /\ wcb' = [wcb EXCEPT ![w] = IF werr[w] THEN @ ELSE 90]
    /\ UNCHANGED <<sysVars, brokerVars, frameVars, delVars, pipeVars, workers, lim, errVars, storeVars, createPc, poolVars, wjob, werr, tickVars,
                   cancelVars, published, unitEvents>>

\* processTask: task.Fail(err)
WorkerFail(w) ==
    /\ wpc[w] = "fail"
    /\ taskObj' = [taskObj EXCEPT ![wjob[w]] =
                      TaskFail(@, IF pipeErr = "" THEN "pipeline" ELSE pipeErr)]
    /\ wpc' = [wpc EXCEPT ![w] = "finalReport"]
    /\ UNCHANGED <<sysVars, brokerVars, frameVars, delVars, pipeVars, workers, lim, errVars, tasks, copyObj, createPc, poolVars, wjob, wcb, werr,
                   tickVars, cancelVars, published, unitEvents>>

\* processTask: task.Complete(result)
WorkerComplete(w) ==
    /\ wpc[w] = "complete"
    /\ taskObj' = [taskObj EXCEPT ![wjob[w]] = TaskComplete(@)]
    /\ wpc' = [wpc EXCEPT ![w] = "finalReport"]
    /\ UNCHANGED <<sysVars, brokerVars, frameVars, delVars, pipeVars, workers, lim, errVars, tasks, copyObj, createPc, poolVars, wjob, wcb, werr,
                   tickVars, cancelVars, published, unitEvents>>

\* processTask: ReportProgress(task.ID, 100.0, ...) of either branch
WorkerFinalReport(w) ==
    /\ wpc[w] = "finalReport"
    /\ ReportProgress(wjob[w], 100)
    /\ wpc' = [wpc EXCEPT ![w] = "finalUpdate"]
    /\ UNCHANGED <<sysVars, brokerVars, frameVars, delVars, pipeVars, workers, lim, errVars, storeVars, createPc, poolVars, wjob, wcb, werr,
                   tickVars, cancelVars>>

\* processTask: the final taskManager.UpdateTask(task); back to the select loop
WorkerFinalUpdate(w) ==
    /\ wpc[w] = "finalUpdate"
    /\ tasks' = UpdateTask(tasks, wjob[w], TaskRef(wjob[w]))
    /\ wpc' = [wpc EXCEPT ![w] = "idle"]
    /\ wjob' = [wjob EXCEPT ![w] = 0]
    /\ wcb' = [wcb EXCEPT ![w] = 0]
    /\ werr' = [werr EXCEPT ![w] = FALSE]
    /\ updErr' = UpdateTaskErr(tasks, wjob[w])
    /\ UNCHANGED <<now, createdAt, rejectLog, outFile, upFile, listLog, createReq,
                   createResp, tempDir, cleanupCalls>>
    /\ UNCHANGED <<brokerVars, frameVars, delVars, pipeVars, workers, lim, errVars, taskObj, copyObj, createPc, poolVars, tickVars,
                   cancelVars, published, unitEvents>>

\* the ticker's next currentProgress: +3, +2 above 70, +1 above 80, at most 95
NextTick(cur) ==
    LET increment == IF cur > 80 THEN 1 ELSE IF cur > 70 THEN 2 ELSE 3
    IN IF cur + increment > 95 THEN 95 ELSE cur + increment

\* ticker goroutine: select case <-ticker.C with currentProgress < 95
TickTick(t) ==
    /\ tickPc[t] = "select"
    /\ tickCur[t] < 95
    /\ tickN[t] < lim.ticks
    /\ tickCur' = [tickCur EXCEPT ![t] = NextTick(@)]
    /\ tickN' = [tickN EXCEPT ![t] = @ + 1]
    /\ tickPc' = [tickPc EXCEPT ![t] = "cbProgress"]
    /\ UNCHANGED <<sysVars, brokerVars, frameVars, delVars, pipeVars, workers, lim, errVars, storeVars, createPc, poolVars, workerVars, ctxDone,
                   cancelVars, published, unitEvents>>

\* ticker goroutine: select case <-compressionCtx.Done()
TickDone(t) ==
    /\ tickPc[t] = "select"
    /\ ctxDone[t]
    /\ tickPc' = [tickPc EXCEPT ![t] = "done"]
    /\ UNCHANGED <<sysVars, brokerVars, frameVars, delVars, pipeVars, workers, lim, errVars, storeVars, createPc, poolVars, workerVars, tickCur,
                   tickN, ctxDone, cancelVars, published, unitEvents>>

\* ticker goroutine, progressCallback: task.UpdateProgress
TickCbProgress(t) ==
    /\ tickPc[t] = "cbProgress"
    /\ taskObj' = [taskObj EXCEPT ![t] = TaskUpdateProgress(@, tickCur[t])]
    /\ tickPc' = [tickPc EXCEPT ![t] = "cbUpdate"]
    /\ UNCHANGED <<sysVars, brokerVars, frameVars, delVars, pipeVars, workers, lim, errVars, tasks, copyObj, createPc, poolVars, workerVars,
                   tickCur, tickN, ctxDone, cancelVars, published, unitEvents>>

\* ticker goroutine, progressCallback: taskManager.UpdateTask
TickCbUpdate(t) ==
    /\ tickPc[t] = "cbUpdate"
    /\ tasks' = UpdateTask(tasks, t, TaskRef(t))
    /\ tickPc' = [tickPc EXCEPT ![t] = "cbReport"]
    /\ updErr' = UpdateTaskErr(tasks, t)
    /\ UNCHANGED <<now, createdAt, rejectLog, outFile, upFile, listLog, createReq,
                   createResp, tempDir, cleanupCalls>>
    /\ UNCHANGED <<brokerVars, frameVars, delVars, pipeVars, workers, lim, errVars, taskObj, copyObj, createPc, poolVars, workerVars,
                   tickCur, tickN, ctxDone, cancelVars, published, unitEvents>>

\* ticker goroutine, progressCallback: progressReporter.ReportProgress
TickCbReport(t) ==
    /\ tickPc[t] = "cbReport"
    /\ ReportProgress(t, tickCur[t])
    /\ tickPc' = [tickPc EXCEPT ![t] = "select"]
    /\ UNCHANGED <<sysVars, brokerVars, frameVars, delVars, pipeVars, workers, lim, errVars, storeVars, createPc, poolVars, workerVars, tickCur,
                   tickN, ctxDone, cancelVars>>

\* the records that the goroutines writing to the TaskInfo of task t in place
\* (outside the store's lock) are in the middle of producing: a worker in
\* task.Start, UpdateProgress, Fail or Complete, the ticker in
\* UpdateProgress, SubmitTask in task.Fail on a full queue
PendingWrites(t) ==
    {TaskStart(taskObj[t]) : w \in {v \in Workers : wjob[v] = t /\ wpc[v] = "start"}}
    \cup {TaskUpdateProgress(taskObj[t], wcb[w]) :
              w \in {v \in Workers : wjob[v] = t /\ wpc[v] = "cbProgress"}}
    \cup {TaskFail(taskObj[t], IF pipeErr = "" THEN "pipeline" ELSE pipeErr) :
              w \in {v \in Workers : wjob[v] = t /\ wpc[v] = "fail"}}
    \cup {TaskComplete(taskObj[t]) :
              w \in {v \in Workers : wjob[v] = t /\ wpc[v] = "complete"}}
    \cup (IF tickPc[t] = "cbProgress"
          THEN {TaskUpdateProgress(taskObj[t], tickCur[t])} ELSE {})
    \cup (IF createPc[t] = "submit" /\ ~stopped /\ ~CanEnqueue(taskQueue)
          THEN {TaskFail(taskObj[t], "queue_full")} ELSE {})

\* the records a field by field copy can read while a is being turned into b
Mixes(a, b) ==
    {[status |-> st, progress |-> pr, result |-> re, error |-> er] :
        st \in {a.status, b.status}, pr \in {a.progress, b.progress},
        re \in {a.result, b.result}, er \in {a.error, b.error}}

\* GetTask: taskCopy := *task, made under the store's read lock while the
\* writers above do not take that lock (a data race): the record as it is, or
\* any mixture of its fields before and after a write in progress
RacyCopies(t) ==
    IF tasks[t] = TaskRef(t)
    THEN {taskObj[t]} \cup UNION {Mixes(taskObj[t], b) : b \in PendingWrites(t)}
    ELSE {StoreRec(t)}

\* cancelTask: GetTask (a copy), the status check, task.Cancel() on the copy
CancelGet(c, t) ==
    /\ cancelPc[c] = "idle"
    /\ c <= lim.cancels
    /\ \A d \in Cancels : d < c => cancelPc[d] # "idle"
    /\ t <= lim.tasks
    /\ cancelId' = [cancelId EXCEPT ![c] = t]
    /\ IF ~Exists(t)
       THEN /\ cancelResp' = [cancelResp EXCEPT ![c] = 404]
            /\ cancelPc' = [cancelPc EXCEPT ![c] = "done"]
            /\ UNCHANGED <<copyObj, cancelSaw>>
       ELSE \E rec \in RacyCopies(t) :
            /\ cancelSaw' = [cancelSaw EXCEPT ![c] = rec.status]
            /\ IF rec.status \notin {"pending", "processing"}
               THEN /\ cancelResp' = [cancelResp EXCEPT ![c] = 409]
                    /\ cancelPc' = [cancelPc EXCEPT ![c] = "done"]
                    /\ UNCHANGED copyObj
               ELSE /\ copyObj' = [copyObj EXCEPT ![c] = TaskCancel(rec)]
                    /\ cancelPc' = [cancelPc EXCEPT ![c] = "update"]
                    /\ UNCHANGED cancelResp
    /\ UNCHANGED <<sysVars, brokerVars, frameVars, delVars, pipeVars, workers, lim, errVars, tasks, taskObj, createPc, poolVars, workerVars,
                   tickVars, cancelAt, published, unitEvents>>

\* task t is in wp.taskQueue
Queued(t) == \E i \in 1..Len(taskQueue) : taskQueue[i] = t

\* cancelTask: taskManager.UpdateTask(task) with the cancelled copy, 200
CancelUpdate(c) ==
    /\ cancelPc[c] = "update"
    /\ tasks' = UpdateTask(tasks, cancelId[c], CopyRef(c))
    /\ cancelResp' = [cancelResp EXCEPT ![c] = 200]
    /\ cancelPc' = [cancelPc EXCEPT ![c] = "done"]
    /\ cancelAt' = [cancelAt EXCEPT ![c] =
                       IF ~Exists(cancelId[c]) THEN ""
                       ELSE IF Queued(cancelId[c]) THEN "queue" ELSE "worker"]
    /\ updErr' = UpdateTaskErr(tasks, cancelId[c])
    /\ UNCHANGED <<now, createdAt, rejectLog, outFile, upFile, listLog, createReq,
                   createResp, tempDir, cleanupCalls>>
    /\ UNCHANGED <<brokerVars, frameVars, delVars, pipeVars, workers, lim, errVars, taskObj, copyObj, createPc, poolVars, workerVars,
                   tickVars, cancelId, cancelSaw, published, unitEvents>>

\* deleteTask: GetTask (a copy) and the status check
DeleteGet(t) ==
    /\ delPc = "idle"
    /\ t <= lim.tasks
    /\ delId' = t
    /\ IF ~Exists(t)
       THEN /\ delResp' = 404
            /\ delPc' = "done"
            /\ UNCHANGED delSaw
       ELSE /\ delSaw' = StoreRec(t).status
            /\ IF StoreRec(t).status = "processing"
               THEN delResp' = 409 /\ delPc' = "done"
               ELSE delResp' = delResp /\ delPc' = "delete"
    /\ UNCHANGED <<sysVars, brokerVars, frameVars, pipeVars, workers, lim, errVars, storeVars, createPc,
                   poolVars, workerVars, tickVars, cancelVars, published, unitEvents>>

\* deleteTask: taskManager.DeleteTask(taskID), cleanupTaskFiles (os.Remove of
\* the output file), then the response
DeleteDo ==
    /\ delPc = "delete"
    /\ delPc' = "done"
    /\ IF Exists(delId)
       THEN /\ tasks' = [tasks EXCEPT ![delId] = None]
            /\ outFile' = [outFile EXCEPT ![delId] = FALSE]
            /\ delResp' = 200
       ELSE /\ delResp' = 500
            /\ UNCHANGED <<tasks, outFile>>
    /\ UNCHANGED <<now, createdAt, updErr, rejectLog, upFile, listLog, createReq,
                   createResp, tempDir, cleanupCalls>>
    /\ UNCHANGED <<brokerVars, frameVars, pipeVars, workers, lim, errVars, taskObj, copyObj,
                   createPc, poolVars, workerVars, tickVars, cancelVars, published, unitEvents,
                   delId, delSaw>>

\* a step of processTask outside the CompressAnimation call
ProcessTaskStep(w) ==
    \/ WorkerStart(w) \/ WorkerStartUpdate(w) \/ WorkerStartReport(w)
    \/ WorkerCbProgress(w) \/ WorkerCbUpdate(w) \/ WorkerCbReport(w)
    \/ WorkerSpawn(w) \/ WorkerCancelCtx(w)
    \/ WorkerWaitDone(w) \/ WorkerFail(w) \/ WorkerComplete(w)
    \/ WorkerFinalReport(w) \/ WorkerFinalUpdate(w)

WorkerStep(w) ==
    \/ WorkerDequeue(w) \/ WorkerQuit(w)
    \/ ProcessTaskStep(w)
    \/ WorkerCompress(w)

TickStep(t) ==
    \/ TickTick(t) \/ TickDone(t)
    \/ TickCbProgress(t) \/ TickCbUpdate(t) \/ TickCbReport(t)

Next ==
    \/ PoolStart
    \/ \E t \in Tasks : CreateTask(t)
    \/ \E t \in Tasks : SubmitTask(t)
    \/ StopBegin
    \/ StopEnd
    \/ \E w \in Workers : WorkerStep(w)
    \/ \E t \in Tasks : TickStep(t)
    \/ \E c \in Cancels, t \in Tasks : CancelGet(c, t)
    \/ \E c \in Cancels : CancelUpdate(c)

Spec == Init /\ [][Next]_vars

\* the pool under a burst of submissions: no cancel request, and every
\* compression returns before the ticker's first tick
InitPool ==
    /\ lim = [tasks |-> PoolTasks, cancels |-> 0, ticks |-> 0,
             reqs |-> {OkRequest}]
    /\ fpN = 1
    /\ fpM = 1
    /\ InitRest

NextPool ==
    \/ PoolStart
    \/ \E t \in Tasks : CreateTask(t)
    \/ \E t \in Tasks : SubmitTask(t)
    \/ StopBegin
    \/ StopEnd
    \/ \E w \in Workers : WorkerStep(w)
    \/ \E t \in Tasks : TickDone(t)

SpecPool == InitPool /\ [][NextPool]_vars

\* the engine with one long-running task and no cancel request
InitProgress ==
    /\ lim = [tasks |-> ProgressTasks, cancels |-> 0, ticks |-> ProgressTicks,
             reqs |-> {OkRequest}]
    /\ fpN = 1
    /\ fpM = 1
    /\ InitRest

NextProgress ==
    \/ PoolStart
    \/ \E t \in Tasks : CreateTask(t)
    \/ \E t \in Tasks : SubmitTask(t)
    \/ StopBegin
    \/ StopEnd
    \/ \E w \in Workers : WorkerStep(w)
    \/ \E t \in Tasks : TickStep(t)

SpecProgress == InitProgress /\ [][NextProgress]_vars

\* the engine with one delete request and no cancel request
InitDelete ==
    /\ lim = [tasks |-> DeleteTasks, cancels |-> 0, ticks |-> 0,
             reqs |-> {OkRequest}]
    /\ fpN = 1
    /\ fpM = 1
    /\ InitRest

NextDelete ==
    \/ PoolStart
    \/ \E t \in Tasks : CreateTask(t)
    \/ \E t \in Tasks : SubmitTask(t)
    \/ StopBegin
    \/ StopEnd
    \/ \E w \in Workers : WorkerStep(w)
    \/ \E t \in Tasks : TickDone(t)
    \/ \E t \in Tasks : DeleteGet(t)
    \/ DeleteDo

SpecDelete == InitDelete /\ [][NextDelete]_vars

\* a pool whose Start is called more than once, under a few submissions
InitStarts ==
    /\ lim = [tasks |-> StartsTasks, cancels |-> 0, ticks |-> 0,
             reqs |-> {OkRequest}]
    /\ fpN = 1
    /\ fpM = 1
    /\ InitRest

NextStarts ==
    \/ PoolStart
    \/ PoolRestart
    \/ \E t \in Tasks : CreateTask(t)
    \/ \E t \in Tasks : SubmitTask(t)
    \/ StopBegin
    \/ StopEnd
    \/ \E w \in Workers : WorkerStep(w)
    \/ \E t \in Tasks : TickDone(t)

SpecStarts == InitStarts /\ [][NextStarts]_vars

\* the createTask handler under every kind of request body, with a worker
\* taking jobs off the queue
InitCreate ==
    /\ lim = [tasks |-> CreateRequests, cancels |-> 0, ticks |-> 0,
              reqs |-> Requests]
    /\ fpN = 1
    /\ fpM = 1
    /\ InitRest

NextCreate ==
    \/ PoolStart
    \/ \E t \in Tasks : CreateTask(t)
    \/ \E t \in Tasks : SubmitTask(t)
    \/ \E w \in Workers : WorkerDequeue(w)

SpecCreate == InitCreate /\ [][NextCreate]_vars

\* -------------------------------------------------------------- listTasks
\* the orders in which a range over a map holding the ids may visit them
\* (the iteration order of a Go map is not specified and differs from one
\* range statement to the next)
RangeOrders(ids) ==
    {ord \in [1..Cardinality(ids) -> ids] :
        \A i, j \in 1..Cardinality(ids) : i # j => ord[i] # ord[j]}

\* listTasks: limit <= 0 becomes 20 and limit > 100 becomes 100
ListLimit(limit) == IF limit <= 0 THEN 20 ELSE IF limit > 100 THEN 100 ELSE limit

\* listTasks: offset < 0 becomes 0
ListOffset(offset) == IF offset < 0 THEN 0 ELSE offset

\* ListTasks on a map whose range visits the ids in the order ord: skip
\* offset records, then copy records until limit are taken
RECURSIVE ListTasks(_, _, _)
ListTasks(ord, limit, offset) ==
    IF ord = <<>> THEN <<>>
    ELSE IF offset > 0 THEN ListTasks(Tail(ord), limit, offset - 1)
    ELSE IF limit <= 0 THEN <<>>
    ELSE <<Head(ord)>> \o ListTasks(Tail(ord), limit - 1, 0)

\* GET /tasks?limit=..&offset=..: listTasks, then MemoryTaskManager.ListTasks
ListCall(limit, offset) ==
    /\ started
    /\ Len(listLog) < MaxLists
    /\ \E ord \in RangeOrders({t \in Tasks : Exists(t)}) :
          listLog' = Append(listLog,
                            [limit |-> ListLimit(limit),
                             offset |-> ListOffset(offset),
                             ids |-> ListTasks(ord, ListLimit(limit), ListOffset(offset)),
                             at |-> tasks])
    /\ UNCHANGED <<now, createdAt, updErr, rejectLog, outFile, upFile, createReq,
                   createResp, tempDir, cleanupCalls>>
    /\ UNCHANGED <<brokerVars, frameVars, delVars, pipeVars, workers, lim, errVars, storeVars,
                   createPc, poolVars, workerVars, tickVars, cancelVars, published, unitEvents>>

\* the store being filled by submissions and listed, with no worker running
InitList ==
    /\ lim = [tasks |-> ListedTasks, cancels |-> 0, ticks |-> 0,
             reqs |-> {OkRequest}]
    /\ fpN = 1
    /\ fpM = 1
    /\ InitRest

NextList ==
    \/ PoolStart
    \/ \E t \in Tasks : CreateTask(t)
    \/ \E t \in Tasks : SubmitTask(t)
    \/ \E limit \in 0..2, offset \in (-1)..2 : ListCall(limit, offset)

SpecList == InitList /\ [][NextList]_vars

\* ------------------------------------------------------- cleanup routine
\* twelve hours pass
ClockTick ==
    /\ now < MaxClockTicks * 12
    /\ now' = now + 12
    /\ UNCHANGED <<createdAt, updErr, rejectLog, outFile, upFile, listLog,
                   createReq, createResp, tempDir, cleanupCalls>>
    /\ UNCHANGED <<brokerVars, frameVars, delVars, pipeVars, workers, lim, errVars, storeVars,
                   createPc, poolVars, workerVars, tickVars, cancelVars, published, unitEvents>>

\* task.CreatedAt.Before(cutoff) with cutoff := time.Now().Add(-olderThan)
Before(at, olderThan) == at < now - olderThan

\* a purge that also takes the records created exactly at the cutoff
CleanupOldTasksAtCutoff(m, olderThan) ==
    [t \in Tasks |->
        IF /\ m[t] # None
           /\ Deref(m[t]).status \in Terminal
           /\ createdAt[t] <= now - olderThan
        THEN None ELSE m[t]]

\* MemoryTaskManager.CleanupOldTasks: the map after the purge
CleanupOldTasks(m, olderThan) ==
    [t \in Tasks |->
        IF /\ m[t] # None
           /\ Deref(m[t]).status \in Terminal
           /\ Before(createdAt[t], olderThan)
        THEN None ELSE m[t]]

\* cleanupTempFiles: the upload directory after its walk; the upload of a
\* task carries the modification time of the task's creation
CleanupTempFiles(up) ==
    [t \in Tasks |-> up[t] /\ ~Before(createdAt[t], Retention)]

\* startCleanupRoutine: one iteration of the loop over ticker.C
CleanupTick ==
    /\ started
    /\ tasks' = CleanupOldTasks(tasks, Retention)
    /\ upFile' = CleanupTempFiles(upFile)
    /\ UNCHANGED <<now, createdAt, updErr, rejectLog, outFile, listLog, createReq,
                   createResp, tempDir, cleanupCalls>>
    /\ UNCHANGED <<brokerVars, frameVars, delVars, pipeVars, workers, lim, errVars, taskObj,
                   copyObj, createPc, poolVars, workerVars, tickVars, cancelVars,
                   published, unitEvents>>

\* the engine over several days with two submissions, the cleanup routine
\* running and no cancel request
InitCleanup ==
    /\ lim = [tasks |-> 2, cancels |-> 0, ticks |-> 0,
             reqs |-> {OkRequest}]
    /\ fpN = 1
    /\ fpM = 1
    /\ InitRest

NextCleanup ==
    \/ PoolStart
    \/ \E t \in Tasks : CreateTask(t)
    \/ \E t \in Tasks : SubmitTask(t)
    \/ \E w \in Workers : WorkerDequeue(w) \/ ProcessTaskStep(w) \/ WorkerCompress(w)
    \/ \E t \in Tasks : TickDone(t)
    \/ ClockTick
    \/ CleanupTick

SpecCleanup == InitCleanup /\ [][NextCleanup]_vars

\* ------------------------------------------------------ progress reporter
\* a send that makes room by discarding the oldest queued update
TrySendEvict(buf, e) ==
    IF Len(buf) < SubCap THEN Append(buf, e) ELSE Append(Tail(buf), e)

\* the non-blocking send of ReportProgress on an open channel:
\* select { case ch <- update: default: }
TrySend(buf, e) == IF Len(buf) < SubCap THEN Append(buf, e) ELSE buf

\* handleProgressWebSocket: progressReporter.Subscribe(taskID)
ConnSubscribe(c, id) ==
    /\ connPc[c] = "new"
    /\ \A d \in Conns : d < c => connPc[d] # "new"
    /\ id <= lim.tasks
    /\ connPc' = [connPc EXCEPT ![c] = "loop"]
    /\ connId' = [connId EXCEPT ![c] = id]
    /\ chans' = [chans EXCEPT ![c] = [buf |-> <<>>, closed |-> FALSE]]
    /\ subscribers' = [subscribers EXCEPT ![id] = Append(@, c)]
    /\ UNCHANGED <<engineVars, errVars, frameVars, pubPc, pubId, pubSnap, pubIdx, pubN,
                   cleaned>>

\* handleProgressWebSocket: case update, ok := <-progressChan with ok
ConnReceive(c) ==
    /\ connPc[c] = "loop"
    /\ chans[c].buf # <<>>
    /\ chans' = [chans EXCEPT ![c].buf = Tail(@)]
    /\ UNCHANGED <<engineVars, errVars, frameVars, subscribers, connPc, connId, pubPc,
                   pubId, pubSnap, pubIdx, pubN, cleaned>>

\* handleProgressWebSocket returns (channel closed, write error, or the
\* client went away) and its deferred Unsubscribe(taskID) runs
ConnReturn(c) ==
    /\ connPc[c] = "loop"
    /\ connPc' = [connPc EXCEPT ![c] = "gone"]
    /\ subscribers' = [subscribers EXCEPT ![connId[c]] = <<>>]
    /\ UNCHANGED <<engineVars, errVars, frameVars, chans, connId, pubPc, pubId, pubSnap,
                   pubIdx, pubN, cleaned>>

\* ReportProgress: read p.subscribers[taskID] under the read lock
PubBegin(id) ==
    /\ pubPc = "idle"
    /\ pubN < MaxEvents
    /\ id <= lim.tasks
    /\ pubN' = pubN + 1
    /\ pubId' = id
    /\ IF subscribers[id] = <<>>
       THEN UNCHANGED <<pubPc, pubSnap, pubIdx>>
       ELSE /\ pubPc' = "send"
            /\ pubSnap' = subscribers[id]
            /\ pubIdx' = 1
    /\ UNCHANGED <<engineVars, errVars, frameVars, subscribers, chans, connPc, connId,
                   cleaned>>

\* ReportProgress: one iteration of the loop over the channels
PubSend ==
    /\ pubPc = "send"
    /\ LET ch == pubSnap[pubIdx]
       IN IF chans[ch].closed
          THEN /\ pubPc' = "panic"
               /\ UNCHANGED <<chans, pubSnap, pubIdx>>
          ELSE /\ chans' = [chans EXCEPT ![ch].buf = TrySend(@, pubN)]
               /\ IF pubIdx < Len(pubSnap)
                  THEN /\ pubIdx' = pubIdx + 1
                       /\ UNCHANGED <<pubPc, pubSnap>>
                  ELSE /\ pubPc' = "idle"
                       /\ pubSnap' = <<>>
                       /\ pubIdx' = 0
    /\ UNCHANGED <<engineVars, errVars, frameVars, subscribers, connPc, connId, pubId,
                   pubN, cleaned>>

\* CleanupSubscribers (Server.Stop): close every channel, empty the map
CleanupSubscribers ==
    /\ ~cleaned
    /\ cleaned' = TRUE
    /\ chans' = [c \in Conns |->
                   IF \E t \in Tasks : \E i \in 1..Len(subscribers[t]) :
                          subscribers[t][i] = c
                   THEN [chans[c] EXCEPT !.closed = TRUE]
                   ELSE chans[c]]
    /\ subscribers' = [t \in Tasks |-> <<>>]
    /\ UNCHANGED <<engineVars, errVars, frameVars, connPc, connId, pubPc, pubId,
                   pubSnap, pubIdx, pubN>>

InitBroker ==
    /\ lim = [tasks |-> BrokerTasks, cancels |-> 0, ticks |-> 0,
             reqs |-> {OkRequest}]
    /\ fpN = 1
    /\ fpM = 1
    /\ InitRest

NextBroker ==
    \/ \E c \in Conns, id \in Tasks : ConnSubscribe(c, id)
    \/ \E c \in Conns : ConnReceive(c)
    \/ \E c \in Conns : ConnReturn(c)
    \/ \E id \in Tasks : PubBegin(id)
    \/ PubSend
    \/ CleanupSubscribers

SpecBroker == InitBroker /\ [][NextBroker]_vars

\* ------------------------------------------------------ frame worker pool
\* capacity of wp.jobs and of wp.results: make(chan ..., maxWorkers*2)
FrameChanCap(m) == 2 * m

\* CompressFramesParallel: the worker count for a task whose MaxConcurrency
\* is mc, with application default def, on n frames
EffectiveWorkers(mc, def, n) ==
    LET maxWorkers == IF mc <= 0 THEN def ELSE mc
    IN IF maxWorkers > n THEN n ELSE maxWorkers

\* a Start that launches one worker more than maxWorkers
FpStartOneMore ==
    /\ fpPc = "start"
    /\ fwPc' = [w \in FWorkers |-> IF w <= fpM + 1 THEN "recv" ELSE "off"]
    /\ fpPc' = "submit"
    /\ UNCHANGED <<engineVars, errVars, brokerVars, framePath, fpLog, fpN, fpM, fpNext, jobs, jobsClosed,
                   results, fwFrame, fwRes, fpCtxDone, fpRuns, fpErrors>>

\* CompressFramesParallel: NewWorkerPool, workerPool.Start(ctx, frameProcessor)
FpStart ==
    /\ fpPc = "start"
    /\ fwPc' = [w \in FWorkers |-> IF w <= fpM THEN "recv" ELSE "off"]
    /\ fpPc' = "submit"
    /\ UNCHANGED <<engineVars, errVars, brokerVars, framePath, fpLog, fpN, fpM, fpNext, jobs, jobsClosed,
                   results, fwFrame, fwRes, fpCtxDone, fpRuns, fpErrors>>

\* CompressFramesParallel: workerPool.Submit(frame), wp.jobs <- frame
FpSubmit ==
    /\ fpPc = "submit"
    /\ fpNext <= fpN
    /\ Len(jobs) < FrameChanCap(fpM)
    /\ jobs' = Append(jobs, fpNext)
    /\ fpNext' = fpNext + 1
    /\ UNCHANGED <<engineVars, errVars, brokerVars, framePath, fpLog, fpN, fpM, fpPc, jobsClosed, results,
                   fwPc, fwFrame, fwRes, fpCtxDone, fpRuns, fpErrors>>

\* CompressFramesParallel: workerPool.Close() after the last Submit
FpClose ==
    /\ fpPc = "submit"
    /\ fpNext > fpN
    /\ jobsClosed' = TRUE
    /\ fpPc' = "wait"
    /\ UNCHANGED <<engineVars, errVars, brokerVars, framePath, fpLog, fpN, fpM, fpNext, jobs, results,
                   fwPc, fwFrame, fwRes, fpCtxDone, fpRuns, fpErrors>>

\* the non-nil values of a drained results channel, in order
RECURSIVE NonNil(_)
\* a Wait that stops collecting at the first failure
NonNilFirst(rs) ==
    IF rs = <<>> THEN <<>>
    ELSE IF Head(rs) = "nil" THEN NonNil(Tail(rs))
    ELSE <<Head(rs)>>

NonNil(rs) ==
    IF rs = <<>> THEN <<>>
    ELSE IF Head(rs) = "nil" THEN NonNil(Tail(rs))
    ELSE <<Head(rs)>> \o NonNil(Tail(rs))

\* a Wait that does not wait for the workers to exit
FpWaitEarly ==
    /\ fpPc = "wait"
    /\ fpErrors' = NonNil(results)
    /\ results' = <<>>
    /\ fpPc' = "done"
    /\ UNCHANGED <<engineVars, errVars, brokerVars, framePath, fpLog, fpN, fpM, fpNext, jobs, jobsClosed,
                   fwPc, fwFrame, fwRes, fpCtxDone, fpRuns>>

\* WorkerPool.Wait: wg.Wait(), close(wp.results), collect the non-nil errors
FpWait ==
    /\ fpPc = "wait"
    /\ \A w \in FWorkers : fwPc[w] \in {"off", "exit"}
    /\ fpErrors' = NonNil(results)
    /\ results' = <<>>
    /\ fpPc' = "done"
    /\ UNCHANGED <<engineVars, errVars, brokerVars, framePath, fpLog, fpN, fpM, fpNext, jobs, jobsClosed,
                   fwPc, fwFrame, fwRes, fpCtxDone, fpRuns>>

\* worker: for frame := range wp.jobs
FwReceive(w) ==
    /\ fwPc[w] = "recv"
    /\ IF jobs # <<>>
       THEN /\ fwFrame' = [fwFrame EXCEPT ![w] = Head(jobs)]
            /\ jobs' = Tail(jobs)
            /\ fwPc' = [fwPc EXCEPT ![w] = "select"]
       ELSE /\ jobsClosed
            /\ fwPc' = [fwPc EXCEPT ![w] = "exit"]
            /\ UNCHANGED <<fwFrame, jobs>>
    /\ UNCHANGED <<engineVars, errVars, brokerVars, framePath, fpLog, fpN, fpM, fpPc, fpNext, jobsClosed,
                   results, fwRes, fpCtxDone, fpRuns, fpErrors>>

\* a worker that starts the processor without looking at the context
FwSelectNoCheck(w) ==
    /\ fwPc[w] = "select"
    /\ fwPc' = [fwPc EXCEPT ![w] = "proc"]
    /\ UNCHANGED <<fwRes, fpLog>>
    /\ UNCHANGED <<engineVars, errVars, brokerVars, framePath, fpN, fpM, fpPc, fpNext, jobs,
                   jobsClosed, results, fwFrame, fpCtxDone, fpRuns, fpErrors>>

\* worker: select { case <-ctx.Done(): ... default: ... }
FwSelect(w) ==
    /\ fwPc[w] = "select"
    /\ IF fpCtxDone
       THEN /\ fwRes' = [fwRes EXCEPT ![w] = "ctx"]
            /\ fwPc' = [fwPc EXCEPT ![w] = "send"]
            /\ fpLog' = Logged(fpLog, fwFrame[w], "ctx")
       ELSE /\ fwPc' = [fwPc EXCEPT ![w] = "proc"]
            /\ UNCHANGED <<fwRes, fpLog>>
    /\ UNCHANGED <<engineVars, errVars, brokerVars, framePath, fpN, fpM, fpPc, fpNext, jobs,
                   jobsClosed, results, fwFrame, fpCtxDone, fpRuns, fpErrors>>

\* a processor that writes its compressed path to the list position of
\* its completion rank instead of its own frame
FwProcessByCompletion(w) ==
    /\ fwPc[w] = "proc"
    /\ \E r \in {"nil", "err"} :
         /\ fwRes' = [fwRes EXCEPT ![w] = r]
         /\ fpLog' = Logged(fpLog, fwFrame[w], r)
         /\ framePath' = IF r = "nil"
                         THEN [framePath EXCEPT
                                 ![Cardinality({f \in Frames : fpLog.out[f] # "none"}) + 1] =
                                  CompressedPath(framePath[fwFrame[w]])]
                         ELSE framePath
    /\ fpRuns' = [fpRuns EXCEPT ![fwFrame[w]] = @ + 1]
    /\ fwPc' = [fwPc EXCEPT ![w] = "send"]
    /\ UNCHANGED <<engineVars, errVars, brokerVars, fpN, fpM, fpPc, fpNext, jobs,
                   jobsClosed, results, fwFrame, fpCtxDone, fpErrors>>

\* worker: err := processor(ctx, frame) returns
FwProcess(w) ==
    /\ fwPc[w] = "proc"
    /\ \E r \in {"nil", "err"} :
         /\ fwRes' = [fwRes EXCEPT ![w] = r]
         /\ fpLog' = Logged(fpLog, fwFrame[w], r)
         /\ framePath' = IF r = "nil"
                         THEN [framePath EXCEPT ![fwFrame[w]] = CompressedPath(@)]
                         ELSE framePath
    /\ fpRuns' = [fpRuns EXCEPT ![fwFrame[w]] = @ + 1]
    /\ fwPc' = [fwPc EXCEPT ![w] = "send"]
    /\ UNCHANGED <<engineVars, errVars, brokerVars, fpN, fpM, fpPc, fpNext, jobs,
                   jobsClosed, results, fwFrame, fpCtxDone, fpErrors>>

\* worker: wp.results <- err, or wp.results <- ctx.Err() and return
FwSend(w) ==
    /\ fwPc[w] = "send"
    /\ Len(results) < FrameChanCap(fpM)
    /\ results' = Append(results, fwRes[w])
    /\ fwPc' = [fwPc EXCEPT ![w] = IF fwRes[w] = "ctx" THEN "exit" ELSE "recv"]
    /\ fwFrame' = [fwFrame EXCEPT ![w] = 0]
    /\ fwRes' = [fwRes EXCEPT ![w] = "nil"]
    /\ UNCHANGED <<engineVars, errVars, brokerVars, framePath, fpLog, fpN, fpM, fpPc, fpNext, jobs,
                   jobsClosed, fpCtxDone, fpRuns, fpErrors>>

\* the task context is cancelled or its deadline expires
FpCtxCancel ==
    /\ fpPc \in {"submit", "wait"}
    /\ ~fpCtxDone
    /\ fpCtxDone' = TRUE
    /\ UNCHANGED <<engineVars, errVars, brokerVars, framePath, fpLog, fpN, fpM, fpPc, fpNext, jobs,
                   jobsClosed, results, fwPc, fwFrame, fwRes, fpRuns, fpErrors>>

\* a step of the submitter or of a frame worker
FramesStep ==
    \/ FpStart
    \/ FpSubmit
    \/ FpClose
    \/ FpWait
    \/ \E w \in FWorkers : FwReceive(w)
    \/ \E w \in FWorkers : FwSelect(w)
    \/ \E w \in FWorkers : FwProcess(w)
    \/ \E w \in FWorkers : FwSend(w)

\* one CompressFramesParallel call on N frames, with the task's
\* MaxConcurrency in 0..MaxConc and a positive application default
\* (config.Validate rejects App.MaxConcurrency <= 0)
InitFramesSpec ==
    /\ lim = [tasks |-> 0, cancels |-> 0, ticks |-> 0,
             reqs |-> {OkRequest}]
    /\ fpN \in 1..MaxFrames
    /\ fpM \in {EffectiveWorkers(mc, def, fpN) :
                  mc \in 0..MaxConc, def \in 1..MaxConc}
    /\ InitRest

NextFrames ==
    \/ FpStart
    \/ FpSubmit
    \/ FpClose
    \/ FpWait
    \/ \E w \in FWorkers : FwReceive(w)
    \/ \E w \in FWorkers : FwSelect(w)
    \/ \E w \in FWorkers : FwProcess(w)
    \/ \E w \in FWorkers : FwSend(w)
    \/ FpCtxCancel

SpecFrames == InitFramesSpec /\ [][NextFrames]_vars

\* the same call on animations long enough for the unit queue to fill up
\* behind workers that have returned
InitFramesCancel ==
    /\ lim = [tasks |-> 0, cancels |-> 0, ticks |-> 0,
              reqs |-> {OkRequest}]
    /\ fpN \in 1..CancelFrames
    /\ fpM \in {EffectiveWorkers(mc, def, fpN) :
                  mc \in 0..MaxConc, def \in 1..MaxConc}
    /\ InitRest

SpecFramesCancel == InitFramesCancel /\ [][NextFrames]_vars

\* ------------------------------------------- WebPService.CompressAnimation
\* One CompressAnimation call is modelled at a time.  The error it returns is
\* named after the call that produced it; "timeout" is the error of a call
\* that found the task context done.

\* executeCompressionWithProgress: job.WebPService.CompressAnimation(...) is
\* entered, on a file of n frames with the task's configuration
PipeBegin(w) ==
    /\ wpc[w] = "compress"
    /\ pipePc = "off"
    /\ \A v \in Workers : wpc[v] \notin {"cancelCtx", "waitDone", "fail"}
    /\ wpc' = [wpc EXCEPT ![w] = "pipeline"]
    /\ pipePc' = "validate"
    /\ pipeIdx' = 0
    /\ pipeErr' = ""
    /\ invoked' = {}
    /\ parallel' \in BOOLEAN
    /\ fpN' \in 1..MaxFrames
    /\ fpM' \in {EffectiveWorkers(mc, def, fpN') :
                   mc \in 0..MaxConc, def \in 1..MaxConc}
    /\ fpPc' = "idle"
    /\ framePath' = [f \in Frames |-> NoPath]
    /\ fpNext' = 1
    /\ jobs' = <<>>
    /\ jobsClosed' = FALSE
    /\ results' = <<>>
    /\ fwPc' = [v \in FWorkers |-> "off"]
    /\ fwFrame' = [v \in FWorkers |-> 0]
    /\ fwRes' = [v \in FWorkers |-> "nil"]
    /\ fpCtxDone' = FALSE
    /\ fpRuns' = [f \in Frames |-> 0]
    /\ fpErrors' = <<>>
    /\ fpLog' = NoLog
    /\ tempDir' = "none"
    /\ cleanupCalls' = 0
    /\ unitEvents' = 0
    /\ UNCHANGED <<now, createdAt, updErr, rejectLog, outFile, upFile, listLog,
                   createReq, createResp>>
    /\ UNCHANGED <<brokerVars, delVars, workers, lim, errVars, storeVars, createPc, poolVars,
                   wjob, wcb, werr, tickVars, cancelVars, published>>

\* the task whose CompressAnimation call is running
PipeTask == CHOOSE t \in Tasks : \E w \in Workers : wpc[w] = "pipeline" /\ wjob[w] = t

\* what the pipeline leaves alone outside its own position and error
pipeRest == <<now, createdAt, updErr, rejectLog, upFile, listLog, createReq,
               createResp, cleanupCalls, brokerVars, delVars, workers, lim, errVars, storeVars, createPc, poolVars,
               workerVars, tickVars, cancelVars, published, unitEvents, parallel, fpN, fpM,
               fpNext, jobs, jobsClosed, results, fwPc, fwFrame, fwRes,
               fpCtxDone, fpErrors>>

\* the outcomes of an external tool run under the task context: it fails
\* with a timeout once the context is done, else it succeeds or fails
ToolOutcomes(failure) == IF fpCtxDone THEN {"timeout"} ELSE {"", failure}

\* CompressAnimation: validateInput and GetFileSize (no tool is run)
PipeValidate ==
    /\ pipePc = "validate"
    /\ \E e \in {"", "validate"} :
         /\ pipeErr' = e
         /\ pipePc' = IF e = "" THEN "parse" ELSE "ret"
    /\ UNCHANGED <<pipeRest, tempDir, outFile, pipeIdx, invoked, fpPc, framePath, fpRuns, fpLog>>

\* CompressAnimation: ParseAnimation (webpmux -info), then CreateTempDir
PipeParse ==
    /\ pipePc = "parse"
    /\ invoked' = invoked \cup {"parse"}
    /\ \E e \in ToolOutcomes("parse") \cup {"tempdir"} :
         /\ pipeErr' = e
         /\ pipePc' = IF e = "" THEN "extract" ELSE "ret"
         /\ tempDir' = IF e = "" THEN "created" ELSE tempDir
    /\ pipeIdx' = 1
    /\ UNCHANGED <<pipeRest, outFile, fpPc, framePath, fpRuns, fpLog>>

\* ExtractFrames: one iteration of the loop (webpmux -get frame), or its end
PipeExtract ==
    /\ pipePc = "extract"
    /\ IF pipeIdx <= fpN
       THEN /\ invoked' = invoked \cup {"extract"}
            /\ \E e \in ToolOutcomes("extract") :
                 /\ pipeErr' = e
                 /\ pipePc' = IF e = "" THEN "extract" ELSE "ret"
                 /\ framePath' = IF e = ""
                                 THEN [framePath EXCEPT ![pipeIdx] = ExtractedPath(pipeIdx)]
                                 ELSE framePath
            /\ pipeIdx' = pipeIdx + 1
       ELSE /\ pipePc' = "compress"
            /\ UNCHANGED <<pipeErr, pipeIdx, invoked, framePath>>
    /\ UNCHANGED <<pipeRest, tempDir, outFile, fpPc, fpRuns, fpLog>>

\* CompressFrames: the parallel path if enabled and there is more than one
\* frame (NewWorkerPool), else the sequential path
PipeCompress ==
    /\ pipePc = "compress"
    /\ invoked' = invoked \cup {"compress"}
    /\ pipeIdx' = 1
    /\ IF parallel /\ fpN > 1
       THEN pipePc' = "par" /\ fpPc' = "start"
       ELSE pipePc' = "seq" /\ fpPc' = fpPc
    /\ UNCHANGED <<pipeRest, tempDir, outFile, pipeErr, framePath, fpRuns, fpLog>>

\* compressFramesSequential: one iteration of the loop (compressFrame), or
\* its end
PipeSeq ==
    /\ pipePc = "seq"
    /\ IF pipeIdx <= fpN
       THEN /\ \E e \in ToolOutcomes("compress") :
                 /\ pipeErr' = e
                 /\ pipePc' = IF e = "" THEN "seq" ELSE "ret"
                 /\ framePath' = IF e = ""
                                 THEN [framePath EXCEPT ![pipeIdx] = CompressedPath(@)]
                                 ELSE framePath
                 /\ fpLog' = Logged(fpLog, pipeIdx, IF e = "" THEN "nil" ELSE "err")
            /\ fpRuns' = [fpRuns EXCEPT ![pipeIdx] = @ + 1]
            /\ pipeIdx' = pipeIdx + 1
       ELSE /\ pipePc' = "assemble"
            /\ UNCHANGED <<pipeErr, pipeIdx, framePath, fpRuns, fpLog>>
    /\ UNCHANGED <<pipeRest, tempDir, outFile, invoked, fpPc>>

\* a CompressFramesParallel that ignores the failures Wait returned
PipeCollectIgnore ==
    /\ pipePc = "par"
    /\ fpPc = "done"
    /\ pipePc' = "assemble"
    /\ UNCHANGED pipeErr
    /\ UNCHANGED <<pipeRest, tempDir, outFile, pipeIdx, invoked, fpPc, framePath, fpRuns, fpLog>>

\* CompressFramesParallel after Wait returned: the first failure, if any
PipeCollect ==
    /\ pipePc = "par"
    /\ fpPc = "done"
    /\ IF Len(fpErrors) > 0
       THEN /\ pipeErr' = IF fpErrors[1] = "ctx" THEN "timeout" ELSE "compress"
            /\ pipePc' = "ret"
       ELSE /\ pipePc' = "assemble"
            /\ UNCHANGED pipeErr
    /\ UNCHANGED <<pipeRest, tempDir, outFile, pipeIdx, invoked, fpPc, framePath, fpRuns, fpLog>>

\* CompressAnimation: AssembleAnimation (webpmux -frame ... -o), then return
PipeAssemble ==
    /\ pipePc = "assemble"
    /\ invoked' = invoked \cup {"assemble"}
    /\ \E e \in ToolOutcomes("assemble") :
         /\ pipeErr' = e
         /\ outFile' = IF e = "" THEN [outFile EXCEPT ![PipeTask] = TRUE] ELSE outFile
    /\ pipePc' = "ret"
    /\ UNCHANGED <<pipeRest, tempDir, pipeIdx, fpPc, framePath, fpRuns, fpLog>>

\* the deferred s.fileManager.CleanupTempDir(tempDir): it runs if the
\* directory was created, and os.RemoveAll may fail
DeferredCleanup ==
    IF tempDir = "created"
    THEN /\ cleanupCalls' = cleanupCalls + 1
         /\ tempDir' \in {"removed", "left"}
    ELSE UNCHANGED <<tempDir, cleanupCalls>>

\* a CompressAnimation that cleans up only when it succeeded
PipeReturnLeak(w) ==
    /\ pipePc = "ret"
    /\ wpc[w] = "pipeline"
    /\ werr' = [werr EXCEPT ![w] = pipeErr # ""]
    /\ wpc' = [wpc EXCEPT ![w] = "cancelCtx"]
    /\ pipePc' = "off"
    /\ IF pipeErr = "" THEN DeferredCleanup ELSE UNCHANGED <<tempDir, cleanupCalls>>
    /\ UNCHANGED <<now, createdAt, updErr, rejectLog, outFile, upFile, listLog,
                   createReq, createResp>>
    /\ UNCHANGED <<brokerVars, frameVars, delVars, workers, lim, errVars, storeVars, createPc,
                   poolVars, wjob, wcb, tickVars, cancelVars, published, unitEvents, pipeIdx,
                   pipeErr, parallel, invoked>>

\* CompressAnimation returns to executeCompressionWithProgress, its deferred
\* call having run
PipeReturn(w) ==
    /\ pipePc = "ret"
    /\ wpc[w] = "pipeline"
    /\ werr' = [werr EXCEPT ![w] = pipeErr # ""]
    /\ wpc' = [wpc EXCEPT ![w] = "cancelCtx"]
    /\ pipePc' = "off"
    /\ DeferredCleanup
    /\ UNCHANGED <<now, createdAt, updErr, rejectLog, outFile, upFile, listLog,
                   createReq, createResp>>
    /\ UNCHANGED <<brokerVars, frameVars, delVars, workers, lim, errVars, storeVars, createPc,
                   poolVars, wjob, wcb, tickVars, cancelVars, published, unitEvents, pipeIdx,
                   pipeErr, parallel, invoked>>

\* the 30 minute deadline of processTask's context expires during the call
PipeDeadline(w) ==
    /\ wpc[w] = "pipeline"
    /\ ~fpCtxDone
    /\ fpCtxDone' = TRUE
    /\ ctxDone' = [ctxDone EXCEPT ![wjob[w]] = TRUE]
    /\ UNCHANGED <<sysVars, brokerVars, delVars, pipeVars, workers, lim, errVars, storeVars, createPc,
                   poolVars, workerVars, tickPc, tickCur, tickN, cancelVars,
                   published, unitEvents, fpN, fpM, fpPc, fpNext, jobs, jobsClosed, results,
                   fwPc, fwFrame, fwRes, fpRuns, fpErrors, framePath, fpLog>>

\* a step of CompressAnimation itself
PipeStep ==
    \/ PipeValidate
    \/ PipeParse
    \/ PipeExtract
    \/ PipeCompress
    \/ PipeSeq
    \/ PipeCollect
    \/ PipeAssemble

\* the engine with CompressAnimation spelled out, for the one task whose
\* call the pipeline variables describe; no cancel request
InitPipeline ==
    /\ lim = [tasks |-> 1, cancels |-> 0, ticks |-> 0,
             reqs |-> {OkRequest}]
    /\ fpN = 1
    /\ fpM = 1
    /\ InitCore
    /\ fpPc = "idle"
    /\ framePath = [f \in Frames |-> NoPath]
    /\ InitPoolOff

NextPipeline ==
    \/ PoolStart
    \/ \E t \in Tasks : CreateTask(t)
    \/ \E t \in Tasks : SubmitTask(t)
    \/ \E w \in Workers : WorkerDequeue(w)
    \/ \E w \in Workers : ProcessTaskStep(w)
    \/ \E t \in Tasks : TickDone(t)
    \/ \E w \in Workers : PipeBegin(w)
    \/ PipeStep
    \/ \E w \in Workers : PipeReturn(w)
    \/ \E w \in Workers : PipeDeadline(w)
    \/ FramesStep

SpecPipeline == InitPipeline /\ [][NextPipeline]_vars

\* the same, with every goroutine scheduled and the deadline timer running
SpecPipelineLive ==
    /\ SpecPipeline
    /\ WF_vars(\E w \in Workers : WorkerDequeue(w) \/ ProcessTaskStep(w))
    /\ WF_vars(\E t \in Tasks : TickDone(t))
    /\ WF_vars(PipeStep)
    /\ WF_vars(\E w \in Workers : PipeBegin(w) \/ PipeReturn(w))
    /\ WF_vars(\E w \in Workers : PipeDeadline(w))
    /\ WF_vars(FramesStep)

\* the same engine with the progress ticker of executeCompressionWithProgress
\* running beside the CompressAnimation call
InitUnits ==
    /\ lim = [tasks |-> 1, cancels |-> 0, ticks |-> UnitTicks,
              reqs |-> {OkRequest}]
    /\ fpN = 1
    /\ fpM = 1
    /\ InitCore
    /\ fpPc = "idle"
    /\ framePath = [f \in Frames |-> NoPath]
    /\ InitPoolOff

NextUnits ==
    \/ PoolStart
    \/ \E t \in Tasks : CreateTask(t)
    \/ \E t \in Tasks : SubmitTask(t)
    \/ \E w \in Workers : WorkerDequeue(w)
    \/ \E w \in Workers : ProcessTaskStep(w)
    \/ \E t \in Tasks : TickStep(t)
    \/ \E w \in Workers : PipeBegin(w)
    \/ PipeStep
    \/ \E w \in Workers : PipeReturn(w)
    \/ FramesStep

SpecUnits == InitUnits /\ [][NextUnits]_vars

\* compressFramesSequential on a frame list, from position i on
RECURSIVE CompressSequential(_, _, _)
CompressSequential(paths, i, n) ==
    IF i > n THEN paths
    ELSE CompressSequential([paths EXCEPT ![i] = CompressedPath(@)], i + 1, n)

\* the frame list ExtractFrames leaves for a file of n frames
ExtractedList(n) == [f \in Frames |-> IF f <= n THEN ExtractedPath(f) ELSE NoPath]

\* ------------------------------------------------- package errors, Wrap
\* a caller wraps an error: nil, a plain error, or an AppError made earlier
WrapCall(err, ty, code) ==
    /\ Len(errHeap) < Len(Predefined) + MaxWraps
    /\ errHeap' = Append(errHeap, Wrap(err, ty, code))
    /\ wrapLog' = Append(wrapLog, [err |-> err, type |-> ty, code |-> code,
                                   ret |-> Len(errHeap) + 1])
    /\ chain' = IF chain.k > 0 /\ err = chain.top
                THEN [chain EXCEPT !.k = @ + 1, !.top = Len(errHeap) + 1]
                ELSE [orig |-> err, k |-> 1, top |-> Len(errHeap) + 1]
    /\ UNCHANGED <<engineVars, brokerVars, frameVars, valPc, valErr, mapFault>>

InitErrors ==
    /\ lim = [tasks |-> 0, cancels |-> 0, ticks |-> 0,
              reqs |-> {OkRequest}]
    /\ fpN = 1
    /\ fpM = 1
    /\ InitRest

NextErrors ==
    \E err \in {NilErr, PlainErr} \cup (1..Len(errHeap)),
       ty \in ErrorTypes, code \in Codes : WrapCall(err, ty, code)

SpecErrors == InitErrors /\ [][NextErrors]_vars

\* ------------------------------------------ package errors, WithContext
\* validateInput(inputPath, config) of task t, whose input path is t: the file
\* exists and nil is returned, or the file is missing and the call goes on to
\* ErrFileNotFound.WithContext("file", inputPath)
ValidateInput(t) ==
    /\ t <= ErrTasks
    /\ ~mapFault
    /\ valPc[t] = "idle"
    /\ \E FileExists \in BOOLEAN :
          valPc' = [valPc EXCEPT ![t] = IF FileExists THEN "ok" ELSE "check"]
    /\ UNCHANGED <<engineVars, brokerVars, frameVars, errHeap, wrapLog, chain,
                   valErr, mapFault>>

\* ErrFileNotFound.Context is nil (not merely empty) until the first caller
\* has run make; a caller is past its make exactly when it is at the
\* assignment or has returned
ContextIsNil == \A u \in Tasks : valPc[u] \notin {"write", "done"}

\* WithContext, `if e.Context == nil`: the receiver is the package-level
\* object itself, and no lock is held
WithContextCheck(t) ==
    /\ ~mapFault
    /\ valPc[t] = "check"
    /\ valPc' = [valPc EXCEPT ![t] = IF ContextIsNil THEN "make" ELSE "write"]
    /\ UNCHANGED <<engineVars, brokerVars, frameVars, errHeap, wrapLog, chain,
                   valErr, mapFault>>

\* WithContext, `e.Context = make(map[string]interface{})`
WithContextMake(t) ==
    /\ ~mapFault
    /\ valPc[t] = "make"
    /\ errHeap' = [errHeap EXCEPT ![ErrFileNotFound].context = {}]
    /\ valPc' = [valPc EXCEPT ![t] = "write"]
    /\ UNCHANGED <<engineVars, brokerVars, frameVars, wrapLog, chain, valErr,
                   mapFault>>

\* WithContext, `e.Context[key] = value; return e`. Two goroutines assigning
\* into the same map at once are a data race: the runtime may stop the
\* process ("concurrent map writes"), or the assignment may go through.
WithContextWrite(t) ==
    /\ ~mapFault
    /\ valPc[t] = "write"
    /\ \/ /\ \E u \in Tasks \ {t} : valPc[u] = "write"
          /\ mapFault' = TRUE
          /\ UNCHANGED <<errHeap, valPc, valErr>>
       \/ /\ errHeap' = [errHeap EXCEPT ![ErrFileNotFound].context =
                                            MapAssign(@, "file", t)]
          /\ valErr' = [valErr EXCEPT ![t] = ErrFileNotFound]
          /\ valPc' = [valPc EXCEPT ![t] = "done"]
          /\ UNCHANGED mapFault
    /\ UNCHANGED <<engineVars, brokerVars, frameVars, wrapLog, chain>>

InitErrCtx ==
    /\ lim = [tasks |-> 0, cancels |-> 0, ticks |-> 0,
              reqs |-> {OkRequest}]
    /\ fpN = 1
    /\ fpM = 1
    /\ InitRest

NextErrCtx ==
    \E t \in Tasks :
        \/ ValidateInput(t)
        \/ WithContextCheck(t)
        \/ WithContextMake(t)
        \/ WithContextWrite(t)

SpecErrCtx == InitErrCtx /\ [][NextErrCtx]_vars

\* ---------------------------------------------------------------- claims

\* a step of the SubmitTask call for task t
SubmitStep(t) == createPc[t] = "submit" /\ createPc'[t] = "done"

\* C1: SubmitTask on a running pool whose queue holds 2*W jobs leaves the
\* queue alone and stores the task as Failed with the queue-full reason;
\* otherwise the job is appended to the queue (never dropped).
C1_QueueFullFails ==
    [][\A t \in Tasks :
         (SubmitStep(t) /\ ~stopped) =>
            IF Len(taskQueue) = 2 * MaxWorkers
            THEN /\ taskQueue' = taskQueue
                 /\ Exists(t)'
                 /\ StoreRec(t)'.status = "failed"
                 /\ StoreRec(t)'.error = "queue_full"
            ELSE taskQueue' = Append(taskQueue, t)]_vars

\* a submission met a full queue: the queue still holds 2*W jobs and the
\* store shows the submitted task as Failed by queue-full
C1_Witness ==
    \E t \in Tasks :
        /\ createPc[t] = "done"
        /\ Len(taskQueue) = 2 * MaxWorkers
        /\ Exists(t)
        /\ StoreRec(t).status = "failed"
        /\ StoreRec(t).error = "queue_full"

\* C2: every change of a stored status follows
\* Pending -> Processing -> {Completed | Failed | Cancelled} (or Pending
\* directly to Failed/Cancelled); a terminal status never changes.
C2_StatusTransitions ==
    [][\A t \in Tasks :
         (Exists(t) /\ Exists(t)') =>
            LET a == StoreRec(t).status
                b == StoreRec(t)'.status
            IN \/ a = b
               \/ a = "pending" /\ b \in {"processing", "failed", "cancelled"}
               \/ a = "processing" /\ b \in Terminal]_vars

\* the worker pool is through with task t
Processed(t) ==
    /\ createPc[t] = "done"
    /\ taskObj[t].status # "pending"
    /\ \A w \in Workers : wjob[w] # t
    /\ \A i \in 1..Len(taskQueue) : taskQueue[i] # t

\* C3: a cancel request accepted while the task was Processing makes the
\* task end as Cancelled.
C3_CancelledWhenProcessed ==
    \A c \in Cancels :
        (/\ cancelPc[c] = "done"
         /\ cancelResp[c] = 200
         /\ cancelSaw[c] = "processing"
         /\ Processed(cancelId[c]))
        => StoreRec(cancelId[c]).status = "cancelled"

\* C4: no step of a cancel request changes a stored record whose status is
\* Completed or Failed, and a request that ends on such a record answers 409.
C4_CancelLeavesFinished ==
    [][\A c \in Cancels, t \in Tasks :
         (/\ cancelPc'[c] # cancelPc[c]
          /\ cancelId'[c] = t
          /\ Exists(t)
          /\ StoreRec(t).status \in {"completed", "failed"})
         => /\ StoreRec(t)' = StoreRec(t)
            /\ cancelPc'[c] = "done" => cancelResp'[c] = 409]_vars

\* C5: the progress values written to the store and the progress values
\* published are non-decreasing over a task's run.
C5_ProgressNonDecreasing ==
    [][\A t \in Tasks :
         /\ published'[t] >= published[t]
         /\ (Exists(t) /\ Exists(t)')
            => StoreRec(t)'.progress >= StoreRec(t).progress]_vars

\* C6: a stored record with a terminal status has progress 100, and a stored
\* record with progress 0 is Pending.
C6_TerminalProgress ==
    \A t \in Tasks :
        Exists(t) =>
            /\ StoreRec(t).status \in Terminal => StoreRec(t).progress = 100
            /\ StoreRec(t).progress = 0 => StoreRec(t).status = "pending"

\* C7: when the worker publishes a milestone the store already holds at
\* least that progress, and when it publishes the final event the store
\* already holds the final status (Completed or Failed) of the task.
C7_StoreBeforePublish ==
    [][\A w \in Workers :
         LET t == wjob[w]
         IN /\ (wpc[w] \in {"startReport", "cbReport"} /\ wpc'[w] # wpc[w]
                /\ Exists(t))
               => StoreRec(t).progress >= published'[t]
            /\ (wpc[w] = "finalReport" /\ wpc'[w] = "finalUpdate" /\ Exists(t))
               => StoreRec(t).status = IF werr[w] THEN "failed" ELSE "completed"]_vars

\* connection d is registered with the reporter
Registered(d) ==
    /\ connPc[d] = "loop"
    /\ \E i \in 1..Len(subscribers[connId[d]]) : subscribers[connId[d]][i] = d

\* C8: when one connection of a task id goes away the other connections of
\* that id stay registered, and every ReportProgress call picks up the
\* channel of every connection that is open on its task id.
C8_IndependentSubscriptions ==
    [][/\ \A c, d \in Conns :
            (c # d /\ connPc[c] = "loop" /\ connPc'[c] = "gone" /\ Registered(d))
            => Registered(d)'
       /\ \A d \in Conns :
            (/\ pubN' = pubN + 1
             /\ connPc[d] = "loop"
             /\ connId[d] = pubId'
             /\ ~chans[d].closed)
            => \E i \in 1..Len(pubSnap') : pubSnap'[i] = d]_vars

\* C9: a publish in progress can always take its next step (it never waits
\* for a consumer); its send on an open channel appends the update unless
\* the channel already holds SubCap updates, in which case that channel
\* alone misses it; no other channel is touched and the loop goes on.
C9_NonBlockingPublish ==
    /\ [](pubPc = "send" => ENABLED PubSend)
    /\ [][(pubPc = "send" /\ pubIdx' # pubIdx /\ ~chans[pubSnap[pubIdx]].closed)
          => LET ch == pubSnap[pubIdx]
             IN /\ chans'[ch].buf = IF Len(chans[ch].buf) = SubCap
                                    THEN chans[ch].buf
                                    ELSE Append(chans[ch].buf, pubN)
                /\ \A d \in Conns : d # ch => chans'[d] = chans[d]
                /\ IF pubIdx < Len(pubSnap)
                   THEN pubPc' = "send" /\ pubIdx' = pubIdx + 1
                   ELSE pubPc' = "idle"]_vars

\* the last update was dropped for a connection whose queue was full and
\* delivered to another connection of the same task id
C9_Witness ==
    /\ pubPc = "idle"
    /\ \E c, d \in Conns :
         /\ c # d
         /\ connPc[c] = "loop" /\ connPc[d] = "loop"
         /\ connId[c] = connId[d]
         /\ Len(chans[c].buf) = SubCap
         /\ chans[c].buf[SubCap] # pubN
         /\ chans[d].buf # <<>>
         /\ chans[d].buf[Len(chans[d].buf)] = pubN

\* C10: without cancellation the sequence Start; Submit * N; Close; Wait
\* never gets stuck before Wait has returned, and when Wait has returned
\* the processor has run exactly once on every frame.
C10_FramePoolTerminates ==
    /\ fpPc # "done" => ENABLED FramesStep
    /\ (fpPc = "done" /\ ~fpCtxDone) => \A f \in 1..fpN : fpRuns[f] = 1

\* C11: the list Wait returns holds exactly one entry per unit whose
\* processor returned an error, one per worker that stopped on cancellation,
\* and nothing for a unit that succeeded; no unit is reported twice.
C11_WaitReturnsEveryFailure ==
    fpPc = "done" =>
        LET sent(v) == {f \in Frames : fpLog.out[f] = v}
            got(v) == {i \in 1..Len(fpErrors) : fpErrors[i] = v}
        IN /\ Cardinality(got("err")) = Cardinality(sent("err"))
           /\ Cardinality(got("ctx")) = Cardinality(sent("ctx"))
           /\ Len(fpErrors) = Cardinality(sent("err")) + Cardinality(sent("ctx"))
           /\ \A f \in Frames : fpRuns[f] <= 1

\* Wait returned two failures after three units, one of them successful
C11_Witness ==
    /\ fpPc = "done"
    /\ Len(fpErrors) = 2
    /\ fpErrors[1] = "err" /\ fpErrors[2] = "err"
    /\ \E f \in Frames : fpLog.out[f] = "nil"

\* the tasks a worker is executing
Executing == {t \in Tasks : taskObj[t].status = "processing"
                            /\ \E w \in Workers : wjob[w] = t}

\* C12: whatever Start, SubmitTask and Stop calls were made on a pool built
\* with worker count W, at most W tasks are being executed at the same time.
C12_AtMostWExecuting == Cardinality(Executing) <= MaxWorkers

\* C13: at most M frame-level codec invocations run at the same time, M
\* being the configured frame concurrency capped at the number of frames.
C13_AtMostMInvocations ==
    /\ Cardinality({w \in FWorkers : fwPc[w] = "proc"}) <= fpM
    /\ fpM <= fpN

\* M = 2 codec invocations are running at once on a task of 3 frames
C13_Witness ==
    /\ fpN = 3
    /\ fpM = 2
    /\ Cardinality({w \in FWorkers : fwPc[w] = "proc"}) = 2

\* C14: every task a worker has dequeued eventually has a terminal status
\* (every goroutine keeps running, every tool invocation returns, and the
\* deadline eventually expires).
C14_DequeuedTaskTerminates ==
    \A t \in Tasks :
        (\E w \in Workers : wjob[w] = t)
            ~> (Exists(t) /\ StoreRec(t).status \in Terminal)

\* C15: a frame worker looks at the task context before each unit: once the
\* context is done it starts no processor, its next send is the cancellation
\* failure for the unit it holds, and having sent it the worker exits and
\* pulls no further unit.
C15_CancellationCheckedPerUnit ==
    [][\A w \in FWorkers :
         /\ (fwPc'[w] = "proc" /\ fwPc[w] # "proc") => ~fpCtxDone
         /\ (fwPc[w] = "select" /\ fpCtxDone /\ fwPc'[w] # "select")
                => /\ fwPc'[w] = "send"
                   /\ fwRes'[w] = "ctx"
                   /\ fwFrame'[w] = fwFrame[w]
                   /\ fpRuns' = fpRuns
         /\ (fwPc[w] = "send" /\ fwRes[w] = "ctx" /\ fwPc'[w] # "send")
                => /\ fwPc'[w] = "exit"
                   /\ results' = Append(results, "ctx")
                   /\ jobs' = jobs
         /\ (fwPc[w] = "exit" /\ pipePc' = pipePc) => fwPc'[w] = "exit"]_vars

\* a worker has exited after sending a cancellation failure, leaving a
\* submitted unit in the queue
C15_Witness ==
    /\ fpCtxDone
    /\ jobs # <<>>
    /\ \E i \in 1..Len(results) : results[i] = "ctx"
    /\ \E w \in FWorkers : fwPc[w] = "exit"

\* C16: no frame compression starts before every frame is extracted, and
\* reassembly starts only after the compression of every frame has finished
\* (sequential and parallel path).
C16_PhasesOrdered ==
    /\ ("compress" \in invoked \/ fpLog # NoLog
            \/ \E w \in FWorkers : fwPc[w] = "proc")
        => \A f \in 1..fpN : framePath[f] # NoPath
    /\ "assemble" \in invoked
        => /\ \A f \in 1..fpN :
                 /\ fpRuns[f] = 1
                 /\ fpLog.out[f] = "nil"
           /\ \A w \in FWorkers : fwPc[w] \in {"off", "exit"}

\* reassembly has started after a parallel compression of three frames
C16_Witness ==
    /\ "assemble" \in invoked
    /\ parallel
    /\ fpN = 3
    /\ fpPc = "done"

\* C17: when every frame compresses successfully, CompressFrames leaves the
\* frame list exactly as the sequential loop does, whatever the mode, the
\* worker count and the order in which the frames were completed.
C17_ParallelEqualsSequential ==
    pipePc = "assemble"
        => /\ framePath = CompressSequential(ExtractedList(fpN), 1, fpN)
           /\ \A f \in 1..fpN : framePath[f].index = f

\* a parallel compression of three frames that completed frame 2 first and
\* succeeded on every frame
C17_Witness ==
    /\ pipePc = "assemble"
    /\ parallel
    /\ fpN = 3
    /\ fpLog.first = 2

\* C18: once a phase has failed no further phase is invoked (reassembly
\* never runs after a frame unit failed), the worker takes the failure
\* branch and fails the task with the error of that phase, and its final
\* update stores that Failed record.
C18_FailureSkipsLaterPhases ==
    /\ [](/\ pipeErr = "validate" => invoked = {}
          /\ pipeErr \in {"parse", "tempdir"} => invoked = {"parse"}
          /\ pipeErr = "extract" => invoked = {"parse", "extract"}
          /\ pipeErr = "compress" => invoked = {"parse", "extract", "compress"}
          /\ (\E f \in Frames : fpLog.out[f] \in {"err", "ctx"})
                => "assemble" \notin invoked)
    /\ [][/\ (pipeErr # "" /\ pipePc' # "validate") => invoked' = invoked
          /\ \A w \in Workers :
                /\ (wpc[w] = "waitDone" /\ wpc'[w] # "waitDone" /\ pipeErr # "")
                       => wpc'[w] = "fail"
                /\ (wpc[w] = "fail" /\ wpc'[w] # "fail")
                       => /\ taskObj'[wjob[w]].status = "failed"
                          /\ taskObj'[wjob[w]].error = pipeErr
                /\ \A t \in Tasks :
                      (/\ wjob[w] = t
                       /\ wpc[w] = "finalUpdate" /\ wpc'[w] # "finalUpdate"
                       /\ werr[w])
                      => /\ Exists(t)'
                         /\ StoreRec(t)' = taskObj[t]
                         /\ taskObj[t].status = "failed"]_vars

\* a task is stored as Failed by a frame unit of a parallel compression,
\* with all three units processed and no reassembly
C18_Witness ==
    \E t \in Tasks :
        /\ Processed(t)
        /\ StoreRec(t).status = "failed"
        /\ StoreRec(t).error = "compress"
        /\ parallel
        /\ fpN = 3
        /\ \A f \in 1..fpN : fpLog.out[f] # "none"
        /\ invoked = {"parse", "extract", "compress"}

\* a step in which the program calls the store for task t (CreateTask, or
\* UpdateTask from SubmitTask, a worker, the ticker or a cancel request)
StoreCall(t) ==
    \/ createPc'[t] # createPc[t]
    \/ \E w \in Workers :
          /\ wjob[w] = t
          /\ wpc[w] \in {"startUpdate", "cbUpdate", "finalUpdate"}
          /\ wpc'[w] # wpc[w]
    \/ tickPc[t] = "cbUpdate" /\ tickPc'[t] # "cbUpdate"
    \/ \E c \in Cancels :
          cancelPc[c] = "update" /\ cancelId[c] = t /\ cancelPc'[c] = "done"

\* C19: the record in the store changes only when the store is called: what
\* a caller or a worker does to the record it holds is not visible in the
\* store before UpdateTask.
C19_StoreOwnsItsCopy ==
    [][\A t \in Tasks :
         (Exists(t) /\ Exists(t)' /\ StoreRec(t)' # StoreRec(t)) => StoreCall(t)]_vars

\* C20: a record whose status is Processing is never removed from the store,
\* and a delete request that ends while its record is Processing answers 409.
C20_DeleteKeepsProcessing ==
    [][\A t \in Tasks :
         (Exists(t) /\ StoreRec(t).status = "processing")
            => /\ Exists(t)'
               /\ (delPc # "done" /\ delPc' = "done" /\ delId' = t)
                     => delResp' = 409]_vars

\* a step that removes a record from the store
PurgeStep == \E t \in Tasks : Exists(t) /\ ~Exists(t)'

\* C21: CleanupOldTasks removes exactly the records that are Completed,
\* Failed or Cancelled and were created strictly before the cutoff: a
\* Pending or Processing record stays whatever its age, a record created at
\* or after the cutoff stays, and no record that stays is changed.
C21_PurgeOnlyOldTerminal ==
    [][PurgeStep =>
         \A t \in Tasks :
            Exists(t) =>
               IF StoreRec(t).status \in Terminal /\ createdAt[t] < now - Retention
               THEN ~Exists(t)'
               ELSE Exists(t)' /\ StoreRec(t)' = StoreRec(t)]_vars

\* a purge has removed one record and kept a terminal record that was
\* created exactly at the cutoff
C21_Witness ==
    /\ \E t \in Tasks :
          /\ ~Exists(t)
          /\ createPc[t] = "done"
    /\ \E t \in Tasks :
          /\ Exists(t)
          /\ StoreRec(t).status \in Terminal
          /\ createdAt[t] = now - Retention

\* a step in which UpdateTask is called for task t (by SubmitTask on a full
\* queue, a worker, the ticker or a cancel request)
UpdateCall(t) ==
    \/ /\ createPc[t] = "submit" /\ createPc'[t] = "done"
       /\ ~stopped /\ ~CanEnqueue(taskQueue)
    \/ \E w \in Workers :
          /\ wjob[w] = t
          /\ wpc[w] \in {"startUpdate", "cbUpdate", "finalUpdate"}
          /\ wpc'[w] # wpc[w]
    \/ tickPc[t] = "cbUpdate" /\ tickPc'[t] # "cbUpdate"
    \/ \E c \in Cancels :
          cancelPc[c] = "update" /\ cancelId[c] = t /\ cancelPc'[c] = "done"

\* C22: UpdateTask on an id the store does not hold returns the not-found
\* error and leaves the store as it is, and a record that has left the store
\* never comes back, whatever its worker does afterwards.
C22_UpdateUnknownIsNotFound ==
    [][\A t \in Tasks :
         /\ (UpdateCall(t) /\ ~Exists(t))
               => /\ tasks' = tasks
                  /\ updErr' = "not_found"
         /\ (UpdateCall(t) /\ Exists(t)) => updErr' = "nil"
         /\ (~Exists(t) /\ createPc[t] # "new") => ~Exists(t)']_vars

\* a task was deleted while it was queued, a worker has then processed it
\* to the end, and its last UpdateTask returned not-found
C22_Witness ==
    \E t \in Tasks :
        /\ delPc = "done" /\ delId = t /\ delResp = 200
        /\ ~Exists(t)
        /\ Processed(t)
        /\ taskObj[t].status \in {"completed", "failed"}
        /\ taskObj[t].error # "queue_full"
        /\ updErr = "not_found"

\* the ids of a page, as a set
PageIds(e) == {e.ids[i] : i \in 1..Len(e.ids)}

\* C23: two ListTasks calls on the same store content with the same limit
\* and offset return the same records in the same order, and the pages at
\* offsets 0 and limit of a store of at most 2 * limit records share no
\* record and together hold every record.
C23_ListIsOrdered ==
    \A i, j \in 1..Len(listLog) :
        (i < j /\ listLog[i].at = listLog[j].at /\ listLog[i].limit = listLog[j].limit)
        => /\ listLog[i].offset = listLog[j].offset
                => listLog[i].ids = listLog[j].ids
           /\ (/\ listLog[i].offset = 0
               /\ listLog[j].offset = listLog[i].limit
               /\ Cardinality({t \in Tasks : listLog[i].at[t] # None})
                     <= 2 * listLog[i].limit)
                => /\ PageIds(listLog[i]) \cap PageIds(listLog[j]) = {}
                   /\ PageIds(listLog[i]) \cup PageIds(listLog[j])
                         = {t \in Tasks : listLog[i].at[t] # None}

\* C24: a SubmitTask call made after Stop is refused and logged: the queue
\* and the store stay as they are, and the refused job is never queued and
\* never executed by a worker.
C24_SubmitAfterStopRejected ==
    /\ [][\A t \in Tasks :
            (SubmitStep(t) /\ stopped)
               => /\ taskQueue' = taskQueue
                  /\ storeVars' = storeVars
                  /\ t \in rejectLog']_vars
    /\ [](\A t \in rejectLog :
            /\ \A i \in 1..Len(taskQueue) : taskQueue[i] # t
            /\ \A w \in Workers : wjob[w] # t
            /\ taskObj[t].status = "pending")

\* a submission was refused after Stop returned, while an earlier job was
\* still in the queue that Stop left behind
C24_Witness ==
    /\ stopPc = "done"
    /\ taskQueue # <<>>
    /\ \E t \in rejectLog : createPc[t] = "done"
    /\ \E t \in Tasks : Processed(t) /\ taskObj[t].status = "completed"

\* C25: a worker exits only from its select loop, with no job in hand; Stop
\* returns only when every worker has exited; and once Stop has returned no
\* record in the store is Processing.
C25_StopIsGraceful ==
    /\ [][\A w \in Workers :
            (wpc'[w] = "exit" /\ wpc[w] # "exit")
               => wpc[w] = "idle" /\ wjob[w] = 0]_vars
    /\ [](stopPc = "done"
            => /\ \A w \in Workers : wpc[w] \in {"off", "exit"} /\ wjob[w] = 0
               /\ \A t \in Tasks :
                     Exists(t) => StoreRec(t).status # "processing")

\* Stop has returned after a worker finished the job it was executing when
\* Stop was called, leaving a queued job unprocessed
C25_Witness ==
    /\ stopPc = "done"
    /\ taskQueue # <<>>
    /\ \E t \in Tasks :
          /\ Processed(t)
          /\ StoreRec(t).status \in {"completed", "failed"}
          /\ StoreRec(t).error # "queue_full"
    /\ \A w \in Slots : wpc[w] = "exit"

\* C26: when CleanupSubscribers returns, the channel of every connection
\* that subscribed and has not returned is closed, and the subscription map
\* is empty.
C26_ShutdownClosesEveryQueue ==
    [][(~cleaned /\ cleaned')
          => /\ \A d \in Conns : connPc[d] = "loop" => chans'[d].closed
             /\ \A t \in Tasks : subscribers'[t] = <<>>]_vars

\* C27: when CompressAnimation returns after its temporary directory was
\* created, whatever phase failed or none, CleanupTempDir has been called
\* for that directory exactly once, at the return and not before; it is not
\* called when no directory was created; and the error CompressAnimation
\* returns, hence the status the task ends with, does not depend on whether
\* the cleanup succeeded.
C27_WorkspaceReclaimed ==
    /\ [][\A w \in Workers :
            (wpc[w] = "pipeline" /\ wpc'[w] # "pipeline")
               => /\ cleanupCalls' = IF tempDir = "created" THEN 1 ELSE 0
                  /\ tempDir = "created" => tempDir' \in {"removed", "left"}
                  /\ tempDir = "none" => tempDir' = "none"
                  /\ werr'[w] = (pipeErr # "")]_vars
    /\ [](/\ pipePc \notin {"off"} => cleanupCalls = 0
          /\ tempDir = "created" <=> pipePc \in {"extract", "compress", "seq", "par",
                                                  "assemble"}
                                     \/ (pipePc = "ret" /\ "extract" \in invoked)
          /\ \A t \in Tasks :
                (Processed(t) /\ Exists(t) /\ pipePc = "off")
                   => StoreRec(t).status = IF pipeErr = "" THEN "completed" ELSE "failed")

\* a task whose compression failed in a frame unit has ended as Failed and
\* the one cleanup of its temporary directory did not succeed
C27_Witness ==
    \E t \in Tasks :
        /\ Processed(t)
        /\ StoreRec(t).status = "failed"
        /\ StoreRec(t).error = "compress"
        /\ tempDir = "left"
        /\ cleanupCalls = 1

\* C28: in every state of the store, a record has a result exactly when it
\* is Completed and a failure reason exactly when it is Failed.
C28_ResultIffCompleted ==
    \A t \in Tasks :
        Exists(t) =>
            /\ StoreRec(t).result <=> StoreRec(t).status = "completed"
            /\ StoreRec(t).error # "" <=> StoreRec(t).status = "failed"

\* the request fails validation as the API defines it: no quality, a quality
\* outside 0..100, or an input file that does not exist
FailsValidation(r) ==
    \/ ~r.quality.present
    \/ r.quality.value < 0
    \/ r.quality.value > 100
    \/ r.input # "present"

\* C29: a createTask request that fails validation is answered 400 by the
\* handler itself, creates no record and enqueues nothing.
C29_InvalidSubmissionRejected ==
    [][\A t \in Tasks :
         (createPc[t] = "new" /\ createPc'[t] # "new" /\ FailsValidation(createReq'[t]))
            => /\ createResp'[t] = 400
               /\ createPc'[t] = "rejected"
               /\ tasks' = tasks
               /\ taskQueue' = taskQueue]_vars

\* C30: a record the cleanup routine purges leaves no output file behind:
\* after the tick, the output file of every purged record is gone.
C30_PurgedOutputReclaimed ==
    [][\A t \in Tasks :
         (Exists(t) /\ ~Exists(t)' /\ now - createdAt[t] > Retention)
            => ~outFile'[t]]_vars

\* the worker is inside processTask
Busy(w) == wpc[w] \notin {"off", "idle", "exit"}

\* C31: SubmitTask never blocks the submitter on a task's execution: while a
\* worker is processing a job, a createTask request that has reached its
\* SubmitTask call can take it, also while Stop waits for that worker.
C31_SubmitNeverBlocks ==
    \A t \in Tasks :
        (createPc[t] = "submit" /\ \E w \in Workers : Busy(w))
            => ENABLED SubmitTask(t)

\* C32: when the compression phase of a task with N frames has completed,
\* exactly N progress events were published during it, one per completed
\* unit.
C32_OneEventPerUnit ==
    pipePc = "assemble" => unitEvents = fpN

\* the connections whose channel a ReportProgress(id) call starting now
\* sends to: the channels listed in p.subscribers[id]
Receivers(id) == {subscribers[id][i] : i \in 1..Len(subscribers[id])}

\* C33: from its Subscribe call until its handler returns or its channel is
\* closed, a connection is among the receivers of every event published on
\* its task id; once the handler has returned it no longer is.
C33_ForwardedUntilClosed ==
    \A c \in Conns :
        /\ (connPc[c] = "loop" /\ ~chans[c].closed) => c \in Receivers(connId[c])
        /\ connPc[c] = "gone" => \A t \in Tasks : c \notin Receivers(t)

\* C34: the error Wrap returns unwraps to the error it was given and
\* reports the type and code it was given; k successive Wrap calls unwind to
\* the original error in exactly k Unwrap steps; an error that is not an
\* AppError has type INTERNAL and code UNKNOWN.
C34_WrapUnwinds ==
    /\ \A i \in 1..Len(wrapLog) :
          LET c == wrapLog[i]
          IN /\ Unwrap(errHeap, c.ret) = c.err
             /\ GetType(errHeap, c.ret) = c.type
             /\ GetCode(errHeap, c.ret) = c.code
             /\ \A ty \in ErrorTypes : IsType(errHeap, c.ret, ty) <=> ty = c.type
             /\ \A code \in Codes : IsCode(errHeap, c.ret, code) <=> code = c.code
    /\ chain.k > 0 =>
          /\ UnwrapN(errHeap, chain.top, chain.k) = chain.orig
          /\ \A j \in 0..(chain.k - 1) : UnwrapN(errHeap, chain.top, j) # chain.orig
    /\ \A err \in {NilErr, PlainErr} :
          /\ GetType(errHeap, err) = "INTERNAL"
          /\ GetCode(errHeap, err) = "UNKNOWN"
          /\ \A ty \in ErrorTypes : ~IsType(errHeap, err, ty)

\* a plain error has been wrapped three times over, under different types
C34_Witness ==
    /\ chain.k = 3
    /\ chain.orig = PlainErr
    /\ GetType(errHeap, chain.top) # GetType(errHeap, Unwrap(errHeap, chain.top))
    /\ UnwrapN(errHeap, chain.top, 3) = PlainErr

\* C35: Stop never dereferences a missing worker, and while it waits in
\* wg.Wait every worker it waits for has had its quit channel closed (so the
\* wait ends once the jobs in flight are over), in every pool state it is
\* called in: never started, started once or several times.
C35_StopReturns ==
    /\ stopPc # "panic"
    /\ stopPc = "wait" =>
          \A w \in Workers : wpc[w] \notin {"off", "exit"} => QuitClosed(w)

\* a worker has moved task t to Processing or is running it
Executed(t) ==
    \/ taskObj[t].status = "processing"
    \/ Exists(t) /\ StoreRec(t).status = "processing"
    \/ \E w \in Workers : wjob[w] = t /\ wpc[w] \in {"compress", "pipeline"}

\* C36: a task whose cancellation was stored while it was still Pending in
\* the queue is never executed: no worker moves it to Processing or runs its
\* compression afterwards.
C36_CancelledPendingNeverRuns ==
    \A c \in Cancels :
        (cancelResp[c] = 200 /\ cancelSaw[c] = "pending" /\ cancelAt[c] = "queue")
            => ~Executed(cancelId[c])

\* C37: no accepted task stays Pending forever: once Stop has returned (every
\* worker has left, so nothing will take a job any more) no task still in
\* the queue has a Pending record.
C37_AcceptedLeavesPending ==
    stopPc = "done" =>
        \A t \in Tasks :
            (Queued(t) /\ Exists(t)) => StoreRec(t).status # "pending"

\* the submitter is inside Submit, blocked on the full unit queue
SubmitBlocked ==
    /\ fpPc = "submit"
    /\ fpNext <= fpN
    /\ Len(jobs) = FrameChanCap(fpM)

\* C38: the submitter is never left blocked on a unit queue that no worker
\* drains any more: while Submit waits for room in the queue, a worker that
\* has not returned is there to make it, also after the task context was
\* cancelled.
C38_SubmitterNeverStranded ==
    SubmitBlocked => \E w \in FWorkers : fwPc[w] \notin {"off", "exit"}

\* C39: a publish never sends on a closed subscription queue, however it
\* interleaves with CleanupSubscribers and with the handlers' Unsubscribe
\* calls: no ReportProgress call panics.
C39_NoSendOnClosedQueue ==
    pubPc # "panic"

\* C40: attaching context to the predefined ErrFileNotFound does not touch
\* state shared between tasks: no two tasks write the same context map (so
\* the runtime never sees concurrent map writes and no two tasks are handed
\* the same error object), and the error a task received carries only the
\* context that task attached.
C40_ContextNotShared ==
    /\ ~mapFault
    /\ \A t \in Tasks :
          valErr[t] # NilErr =>
             /\ errHeap[valErr[t]].context = {<<"file", t>>}
             /\ \A u \in Tasks \ {t} : valErr[u] # valErr[t]

====
